---- MODULE Spec2Model ----
(***************************************************************************)
(* Cloth Authenticator server: the Firestore-backed session store          *)
(* (server/src/utils/sessionStore.ts), the chat route                      *)
(* (server/src/routes/chat.ts), the analyze route                          *)
(* (server/src/routes/upload.ts) and the model gateway                     *)
(* (server/src/services/gemini.ts).                                        *)
(*                                                                         *)
(* One action is one resumption of an async handler: the awaited           *)
(* operation completes and the continuation runs up to the next await.     *)
(* Date.now() is the variable now; Tick advances it between any two        *)
(* resumptions.  The document store is taken to be available: get, set     *)
(* and delete complete.                                                    *)
(***************************************************************************)
EXTENDS Integers, Sequences, FiniteSets, TLC

\* ------------------------------------------------------------------ bounds
MaxTime == 4

\* files of one upload
MaxFiles == 1

\* calls of deleteSession
MaxDeletes == 2

\* SESSION_TTL_MS, in ticks of the model clock (the source default is 24 h)
SESSION_TTL_MS == 2

SessionIds == {"s1", "s2"}
ChatReqs == {"c1", "c2"}
AnalyzeReqs == {"a1", "a2"}
Messages == {"q1"}
ReplyTexts == {"", "r1"}
Narratives == {"n1"}

\* ------------------------------------------------------- JavaScript values
\* numbers are carried in tenths: 805 stands for 80.5
NaN == -1000000

\* a property the parsed object does not have
Undefined == -2000000

\* Math.round: to the nearest integer, halves upwards
MathRound(x) == IF x = NaN THEN NaN ELSE ((x + 5) \div 10) * 10

\* INR_TO_USD = 0.012, in thousandths
INR_TO_USD == 12

\* x * INR_TO_USD of a number in tenths: the product, in ten-thousandths
TimesInrToUsd(x) == IF x = NaN THEN NaN ELSE x * INR_TO_USD

\* variant: the product is truncated
MathTruncProduct(y) == IF y = NaN THEN NaN ELSE (y \div 10000) * 10

\* Math.round of a number carried in ten-thousandths; the result in tenths
MathRoundProduct(y) == IF y = NaN THEN NaN ELSE ((y + 5000) \div 10000) * 10

\* ------------------------------------------------------------ session data
\* retail_price: undefined
NoRetailPrice == [defined |-> FALSE, inr |-> 0, usd |-> 0]

NoPriceEstimate ==
  [retail_price |-> NoRetailPrice,
   current_market_price |-> [inr |-> [low |-> 0, median |-> 0, high |-> 0],
                             usd |-> [low |-> 0, median |-> 0, high |-> 0]],
   confidence |-> Undefined]

NoAnalysis ==
  [authenticity |-> [score |-> 0, confidence |-> 0, verdict |-> ""],
   priceEstimate |-> NoPriceEstimate,
   narrative |-> "",
   rarity |-> "",
   resalePlatforms |-> [defined |-> FALSE, names |-> << >>],
   era |-> [classification |-> "", rationale |-> "",
            decade |-> [defined |-> FALSE, value |-> ""]],
   thumbnails |-> << >>]

NoData == [imagePaths |-> << >>, analysis |-> NoAnalysis, conversationHistory |-> <<>>]

NoDoc == [exists |-> FALSE, data |-> NoData, expiresAt |-> 0]

\* ------------------------------------------------- Firestore document store
\* doc(id).get(): a snapshot of the document, or one with exists = false
DocGet(st, id) ==
  IF id \in DOMAIN st
    THEN [exists |-> TRUE, data |-> st[id].data, expiresAt |-> st[id].expiresAt]
    ELSE NoDoc

\* doc(id).set(fields): creates or overwrites the document
DocSet(st, id, fields) ==
  [x \in (DOMAIN st) \cup {id} |-> IF x = id THEN fields ELSE st[x]]

\* variant: an existing document keeps its stored data (first writer wins)
DocSetMergeKeepStored(st, id, fields) ==
  [x \in (DOMAIN st) \cup {id} |->
     IF x = id
       THEN [data |-> IF id \in DOMAIN st THEN st[id].data ELSE fields.data,
             expiresAt |-> fields.expiresAt]
       ELSE st[x]]

\* doc(id).set(fields, {merge: true}): creates the document when it does not
\* exist; otherwise every supplied field replaces the stored one.  The caller
\* supplies both data and expiresAt, so no stored field survives.
DocSetMerge(st, id, fields) ==
  [x \in (DOMAIN st) \cup {id} |->
     IF x = id
       THEN [data |-> fields.data, expiresAt |-> fields.expiresAt]
       ELSE st[x]]

\* variant: the delete empties the collection
DocDeleteAll(st, id) == << >>

\* doc(id).delete(): no error when the document does not exist
DocDelete(st, id) == [x \in (DOMAIN st) \ {id} |-> st[x]]

\* ----------------------------------------------------------- sessionStore.ts
\* variant: an absolute expiry that ignores the time of the write
NewExpiresAtFixed(t) == SESSION_TTL_MS

\* Date.now() + SESSION_TTL_MS
NewExpiresAt(t) == t + SESSION_TTL_MS

\* variant: a record read at its very expiresAt counts as expired
IsExpiredAtOrAfter(payload, t) == payload.expiresAt # 0 /\ t >= payload.expiresAt

\* payload.expiresAt && Date.now() > payload.expiresAt
IsExpired(payload, t) == payload.expiresAt # 0 /\ t > payload.expiresAt

\* variant: getSession without the expiry check
GetSessionBranchNoExpiry(payload, t) == IF ~payload.exists THEN "absent" ELSE "found"

\* the branch getSession takes on the snapshot it read
GetSessionBranch(payload, t) ==
  IF ~payload.exists THEN "absent"
  ELSE IF IsExpired(payload, t) THEN "expired"
  ELSE "found"

\* ------------------------------------------------------------------ chat.ts
\* variant: only the session id is validated
ChatMissingSessionId(sid, msg) == sid = ""

\* !sessionId || !message
ChatMissingFields(sid, msg) == sid = "" \/ msg = ""

\* response.data.candidates?.[0]?.content?.parts?.[0]?.text || fallback
AskGeminiText(text) == IF text = "" THEN "apology" ELSE text

Turn(role, content) == [role |-> role, content |-> content]

\* variant: the assistant turn is pushed before the user turn
PushTurnsReversed(history, msg, response) ==
  history \o << [role |-> "assistant", content |-> response],
                [role |-> "user", content |-> msg] >>

\* session.conversationHistory.push(user turn, assistant turn)
PushTurns(history, msg, response) ==
  history \o << Turn("user", msg), Turn("assistant", response) >>

\* ---------------------------------------------------------------- gemini.ts
\* A model reply is a sequence of tokens: prose words, ``` fences, braces,
\* commas and "key": value members.
Tok(t) == [t |-> t, k |-> "", n |-> 0, s |-> ""]

Num(k, n) == [t |-> "num", k |-> k, n |-> n, s |-> ""]

Str(k, s) == [t |-> "str", k |-> k, n |-> 0, s |-> s]

IsMember(tok) == tok.t \in {"num", "str"}

Positions(text, t) == {i \in 1..Len(text) : text[i].t = t}

Min(S) == CHOOSE x \in S : \A y \in S : x <= y

Max(S) == CHOOSE x \in S : \A y \in S : x >= y

\* textResponse.match(/```(?:json)?\s*([\s\S]*?)\s*```/i): the text between
\* the first fence and the next one
FencedJsonMatch(text) ==
  LET f == Positions(text, "fence")
  IN IF Cardinality(f) < 2
       THEN [match |-> FALSE, text |-> << >>]
       ELSE [match |-> TRUE,
             text |-> SubSeq(text, Min(f) + 1, Min(f \ {Min(f)}) - 1)]

\* textResponse.match(/\{[\s\S]*\}/): from the first { to the last }
BraceJsonMatch(text) ==
  LET lb == Positions(text, "{")
      rb == Positions(text, "}")
  IN IF lb = {} \/ rb = {} \/ Max(rb) < Min(lb)
       THEN [match |-> FALSE, text |-> << >>]
       ELSE [match |-> TRUE, text |-> SubSeq(text, Min(lb), Max(rb))]

\* jsonText: the fenced group if a fenced block matches, else the brace span,
\* else ''
ExtractJsonText(text) ==
  IF FencedJsonMatch(text).match THEN FencedJsonMatch(text).text
  ELSE IF BraceJsonMatch(text).match THEN BraceJsonMatch(text).text
  ELSE << >>

\* JSON.parse succeeds on { member (, member)* } and on {}
JsonValid(toks) ==
  /\ Len(toks) >= 2
  /\ toks[1].t = "{"
  /\ toks[Len(toks)].t = "}"
  /\ LET inner == SubSeq(toks, 2, Len(toks) - 1)
     IN /\ Len(inner) = 0 \/ Len(inner) % 2 = 1
        /\ \A i \in 1..Len(inner) :
             IF i % 2 = 1 THEN IsMember(inner[i]) ELSE inner[i].t = ","

\* variant: the normalisation leaves the commas in
KeepTrailingCommas(toks) == toks

\* .replace(/,\s*([}\]])/g, '$1'): a comma directly before a closing bracket
\* is dropped
RECURSIVE StripTrailingCommas(_)
StripTrailingCommas(toks) ==
  IF Len(toks) = 0 THEN << >>
  ELSE IF Len(toks) >= 2 /\ toks[1].t = "," /\ toks[2].t = "}"
    THEN StripTrailingCommas(Tail(toks))
  ELSE << toks[1] >> \o StripTrailingCommas(Tail(toks))

\* variant: a reply without usable JSON yields an empty object, not an error
ParseModelJsonLenient(text) ==
  LET jsonText == ExtractJsonText(text)
      cleaned == StripTrailingCommas(jsonText)
  IN IF JsonValid(jsonText) THEN [ok |-> TRUE, parsed |-> jsonText]
     ELSE IF JsonValid(cleaned) THEN [ok |-> TRUE, parsed |-> cleaned]
     ELSE [ok |-> TRUE, parsed |-> << >>]

\* the extraction of both JSON calls: throw on empty jsonText; parse; on a
\* parse error normalise and parse once more
ParseModelJson(text) ==
  LET jsonText == ExtractJsonText(text)
      cleaned == StripTrailingCommas(jsonText)
  IN IF jsonText = << >> THEN [ok |-> FALSE, parsed |-> << >>]
     ELSE IF JsonValid(jsonText) THEN [ok |-> TRUE, parsed |-> jsonText]
     ELSE IF JsonValid(cleaned) THEN [ok |-> TRUE, parsed |-> cleaned]
     ELSE [ok |-> FALSE, parsed |-> << >>]

\* parsed[key] of the parsed object: the last member with that key
HasKey(parsed, key) == \E i \in 1..Len(parsed) : IsMember(parsed[i]) /\ parsed[i].k = key

Member(parsed, key) ==
  parsed[Max({i \in 1..Len(parsed) : IsMember(parsed[i]) /\ parsed[i].k = key})]

\* a property read as a number: undefined and non-numeric strings give NaN
\* under Math.round
NumberOf(parsed, key) ==
  IF HasKey(parsed, key) /\ Member(parsed, key).t = "num"
    THEN Member(parsed, key).n ELSE NaN

\* a property read as a string: '' stands for undefined
StringOf(parsed, key) ==
  IF HasKey(parsed, key) /\ Member(parsed, key).t = "str"
    THEN Member(parsed, key).s ELSE ""

\* variant: a verdict outside the four tokens is replaced by the default
AuthenticityResultCanonical(parsed) ==
  [score |-> MathRound(NumberOf(parsed, "score")),
   verdict |-> IF StringOf(parsed, "verdict") \in
                    {"AUTHENTIC", "LIKELY AUTHENTIC", "QUESTIONABLE", "COUNTERFEIT"}
               THEN StringOf(parsed, "verdict") ELSE "QUESTIONABLE",
   confidence |-> MathRound(NumberOf(parsed, "confidence"))]

\* the AuthenticityResult computeAuthenticityWithAI returns
AuthenticityResult(parsed) ==
  [score |-> MathRound(NumberOf(parsed, "score")),
   verdict |-> IF StringOf(parsed, "verdict") = "" THEN "QUESTIONABLE"
               ELSE StringOf(parsed, "verdict"),
   confidence |-> MathRound(NumberOf(parsed, "confidence"))]

\* parsed[key] passed on as it is
PropertyOf(parsed, key) ==
  IF HasKey(parsed, key) /\ Member(parsed, key).t = "num"
    THEN Member(parsed, key).n ELSE Undefined

\* parsed.retail_price_inr > 0 ? { inr, usd } : undefined, with
\* usd: Math.round(parsed.retail_price_usd || parsed.retail_price_inr * INR_TO_USD)
RetailPrice(parsed) ==
  LET inr == NumberOf(parsed, "retail_price_inr")
      usd == NumberOf(parsed, "retail_price_usd")
  IN IF inr # NaN /\ inr > 0
       THEN [defined |-> TRUE,
             inr |-> MathRound(inr),
             usd |-> IF usd # NaN /\ usd # 0 THEN MathRound(usd)
                     ELSE MathRoundProduct(TimesInrToUsd(inr))]
       ELSE NoRetailPrice

\* variant: the triple is put in order before it is rounded
PriceEstimateSorted(parsed) ==
  LET low == NumberOf(parsed, "current_low_inr")
      median == NumberOf(parsed, "current_median_inr")
      high == NumberOf(parsed, "current_high_inr")
      least == Min({low, median, high})
      most == Max({low, median, high})
      middle == low + median + high - least - most
  IN [retail_price |-> RetailPrice(parsed),
      current_market_price |->
        [inr |-> [low |-> MathRound(least),
                  median |-> MathRound(middle),
                  high |-> MathRound(most)],
         usd |-> [low |-> MathRoundProduct(TimesInrToUsd(least)),
                  median |-> MathRoundProduct(TimesInrToUsd(middle)),
                  high |-> MathRoundProduct(TimesInrToUsd(most))]],
      confidence |-> PropertyOf(parsed, "confidence")]

\* the PriceEstimate estimatePriceWithAI returns
PriceEstimate(parsed) ==
  LET low == NumberOf(parsed, "current_low_inr")
      median == NumberOf(parsed, "current_median_inr")
      high == NumberOf(parsed, "current_high_inr")
  IN [retail_price |-> RetailPrice(parsed),
      current_market_price |->
        [inr |-> [low |-> MathRound(low),
                  median |-> MathRound(median),
                  high |-> MathRound(high)],
         usd |-> [low |-> MathRoundProduct(TimesInrToUsd(low)),
                  median |-> MathRoundProduct(TimesInrToUsd(median)),
                  high |-> MathRoundProduct(TimesInrToUsd(high))]],
      confidence |-> PropertyOf(parsed, "confidence")]

\* a reply of the authenticity call: prose, then the JSON object
AuthReply ==
  << Tok("w"), Tok("{"), Num("score", 805), Tok(","), Str("verdict", "AUTHENTIC"),
     Tok(","), Num("confidence", 900), Tok("}") >>

\* replies of the authenticity call
AuthReplies ==
  { AuthReply,
    << Tok("fence"), Tok("{"), Num("confidence", 900), Tok(","),
       Str("verdict", "AUTHENTIC"), Tok(","), Num("score", 805), Tok(","), Tok("}"),
       Tok("fence") >>,
    << Tok("w"), Tok("w") >>,
    << Tok("{"), Tok("w"), Tok("}") >> }

\* a reply of the price call
PriceReply ==
  << Tok("{"), Num("current_low_inr", 10000), Tok(","),
     Num("current_median_inr", 20000), Tok(","),
     Num("current_high_inr", 30000), Tok("}") >>

\* replies of the price call
PriceReplies ==
  { PriceReply,
    << Tok("w") >> }

\* members joined by commas
RECURSIVE Join(_)
Join(members) ==
  IF Len(members) = 0 THEN << >>
  ELSE IF Len(members) = 1 THEN << members[1] >>
  ELSE << members[1], Tok(",") >> \o Join(Tail(members))

\* the text of a JSON object with these members
JsonObject(members) == << Tok("{") >> \o Join(members) \o << Tok("}") >>

\* the same with a comma after the last member
JsonObjectTrailingComma(members) ==
  << Tok("{") >> \o Join(members) \o << Tok(","), Tok("}") >>

\* the four verdicts the prompt asks for, one it does not know, and ''
Verdicts ==
  {"AUTHENTIC", "LIKELY AUTHENTIC", "QUESTIONABLE", "COUNTERFEIT", "PROBABLY FAKE", ""}

\* scores, in tenths
Scores == {800, 805}

VerdictReply(score, verdict) ==
  JsonObject(<< Num("score", score), Str("verdict", verdict), Num("confidence", 900) >>)

\* {"score":80,}
TrailingCommaReply == JsonObjectTrailingComma(<< Num("score", 800) >>)

\* replies of the authenticity call, for the extraction
ExtractAuthReplies ==
  {VerdictReply(score, verdict) : score \in Scores, verdict \in Verdicts}
    \cup {TrailingCommaReply,
          << Tok("w"), Tok("fence") >> \o TrailingCommaReply \o << Tok("fence"), Tok("w") >>,
          JsonObject(<< Num("score", 424), Num("confidence", 876) >>),
          << >>,
          << Tok("w"), Tok("w") >>,
          << Tok("}"), Tok("w"), Tok("{") >>,
          << Tok("{"), Tok("w"), Tok("}") >>}

\* rupee amounts, in tenths: 41.6, 125, 1000, 1000.4, 1000.5, 2000, 3000
PriceValues == {416, 1250, 10000, 10004, 10005, 20000, 30000}

TripleReply(low, median, high) ==
  JsonObject(<< Num("current_low_inr", low), Num("current_median_inr", median),
                Num("current_high_inr", high) >>)

\* a price reply with a retail price and a confidence
FullPriceReply(retailInr, retailUsd, confidence) ==
  JsonObject(<< Num("retail_price_inr", retailInr), Num("retail_price_usd", retailUsd),
                Num("current_low_inr", 10000), Num("current_median_inr", 20000),
                Num("current_high_inr", 30000), Num("confidence", confidence) >>)

\* replies of the price call, for the extraction
ExtractPriceReplies ==
  {TripleReply(low, median, high) : low, median, high \in PriceValues}
    \cup {FullPriceReply(retailInr, retailUsd, confidence) :
            retailInr \in {0, 49996}, retailUsd \in {0, 604}, confidence \in {700, 725}}
    \cup {JsonObjectTrailingComma(<< Num("current_low_inr", 10000),
                                     Num("current_median_inr", 20000),
                                     Num("current_high_inr", 30000) >>),
          << >>,
          << Tok("w") >>}

\* ------------------------------------------------------ middleware/upload.ts
\* MAX_UPLOAD_SIZE_MB, the default; file sizes are carried in MB
MAX_SIZE == 8

\* limits.files and the maxCount of upload.array('images', 3)
MaxCount == 3

File(mimetype, size) == [mimetype |-> mimetype, size |-> size]

\* allowedTypes.includes(file.mimetype)
FileFilter(file) == file.mimetype \in {"image/jpeg", "image/jpg", "image/png"}

\* what multer finds wrong with the i-th file of the field, '' when nothing
FileError(files, i) ==
  IF i > MaxCount THEN "LIMIT_UNEXPECTED_FILE"
  ELSE IF ~FileFilter(files[i]) THEN "Invalid file type"
  ELSE IF files[i].size > MAX_SIZE THEN "LIMIT_FILE_SIZE"
  ELSE ""

\* uploadMiddleware: the error multer passes to next(), that of the first
\* file it rejects; '' when req.files is populated and the handler runs.
\* Neither MulterError nor the Error of fileFilter carries a status.
UploadMiddleware(files) ==
  LET bad == {i \in 1..Len(files) : FileError(files, i) # ""}
  IN IF bad = {} THEN [message |-> "", status |-> 0]
     ELSE [message |-> FileError(files, Min(bad)), status |-> 0]

\* the error handling middleware of index.ts: err.status || 500
ErrorStatus(err) == IF err.status # 0 THEN err.status ELSE 500

\* n photos that pass the middleware
Photos(n) == [i \in 1..n |-> File("image/jpeg", 1)]

\* the uploads of the analyze requests: up to MaxFiles photos, one file too
\* many, a GIF, and a PNG above the size limit
Uploads ==
  {Photos(n) : n \in 0..MaxFiles}
    \cup {Photos(MaxCount + 1), << File("image/gif", 1) >>,
          << File("image/png", MAX_SIZE + 1) >>}

\* ------------------------------------------------- strings and RegExp pieces
\* A text is a string; Len, SubSeq and \o work on its characters.
\* s.substring(i - 1, j): the characters i..j, clipped to the text
Slice(s, i, j) ==
  LET from == IF i < 1 THEN 1 ELSE i
      to == IF j > Len(s) THEN Len(s) ELSE j
  IN IF from > to THEN "" ELSE SubSeq(s, from, to)

\* the character at position i, '' outside the text
CharAt(s, i) == Slice(s, i, i)

UpperCaseLetters ==
  {"A", "B", "C", "D", "E", "F", "G", "H", "I", "J", "K", "L", "M",
   "N", "O", "P", "Q", "R", "S", "T", "U", "V", "W", "X", "Y", "Z"}

LowerCaseLetters ==
  {"a", "b", "c", "d", "e", "f", "g", "h", "i", "j", "k", "l", "m",
   "n", "o", "p", "q", "r", "s", "t", "u", "v", "w", "x", "y", "z"}

Digits == {"0", "1", "2", "3", "4", "5", "6", "7", "8", "9"}

\* String.prototype.toLowerCase of one character
LowerCaseChar(c) ==
  CASE c = "A" -> "a" [] c = "B" -> "b" [] c = "C" -> "c" [] c = "D" -> "d"
    [] c = "E" -> "e" [] c = "F" -> "f" [] c = "G" -> "g" [] c = "H" -> "h"
    [] c = "I" -> "i" [] c = "J" -> "j" [] c = "K" -> "k" [] c = "L" -> "l"
    [] c = "M" -> "m" [] c = "N" -> "n" [] c = "O" -> "o" [] c = "P" -> "p"
    [] c = "Q" -> "q" [] c = "R" -> "r" [] c = "S" -> "s" [] c = "T" -> "t"
    [] c = "U" -> "u" [] c = "V" -> "v" [] c = "W" -> "w" [] c = "X" -> "x"
    [] c = "Y" -> "y" [] c = "Z" -> "z" [] OTHER -> c

\* String.prototype.toLowerCase
RECURSIVE ToLowerCase(_)
ToLowerCase(s) ==
  IF Len(s) = 0 THEN ""
  ELSE LowerCaseChar(CharAt(s, 1)) \o ToLowerCase(SubSeq(s, 2, Len(s)))

\* \w at position i; a position outside the text holds no character
IsWordChar(s, i) ==
  /\ i >= 1 /\ i <= Len(s)
  /\ CharAt(s, i) \in UpperCaseLetters \cup LowerCaseLetters \cup Digits \cup {"_"}

\* \s at position i
IsSpace(s, i) == i >= 1 /\ i <= Len(s) /\ CharAt(s, i) \in {" ", "\n", "\t", "\r"}

\* \b in front of position i
WordBoundary(s, i) == IsWordChar(s, i - 1) # IsWordChar(s, i)

\* the literal lit (given in lower case) at position i under the flag i
MatchesAt(s, i, lit) ==
  /\ i >= 1 /\ i + Len(lit) - 1 <= Len(s)
  /\ ToLowerCase(Slice(s, i, i + Len(lit) - 1)) = lit

\* where a greedy \s* that starts at position i ends
SkipSpaces(s, i) == Min({j \in i..(Len(s) + 1) : ~IsSpace(s, j)})

\* String.prototype.includes
Includes(s, part) == \E i \in 1..Len(s) : Slice(s, i, i + Len(part) - 1) = part

\* String.prototype.trim
RECURSIVE Trim(_)
Trim(s) ==
  IF Len(s) = 0 THEN ""
  ELSE IF IsSpace(s, 1) THEN Trim(Slice(s, 2, Len(s)))
  ELSE IF IsSpace(s, Len(s)) THEN Trim(Slice(s, 1, Len(s) - 1))
  ELSE s

\* ------------------------------------------- upload.ts, narrative extraction
\* the alternatives of the rarity pattern
RarityWords == {"common", "uncommon", "rare", "epic", "legendary", "mythic"}

\* the alternatives of /\b(common|uncommon|rare|epic|legendary|mythic)\b/i
\* that match at position i
RarityMatchAt(s, i) ==
  {w \in RarityWords :
     WordBoundary(s, i) /\ MatchesAt(s, i, w) /\ WordBoundary(s, i + Len(w))}

\* variant: the match that lies last in the text decides
RarityLastMatch(rawAnalysis) ==
  LET hits == {i \in 1..Len(rawAnalysis) : RarityMatchAt(rawAnalysis, i) # {}}
  IN IF hits = {} THEN "common"
     ELSE CHOOSE w \in RarityMatchAt(rawAnalysis, Max(hits)) : TRUE

\* let rarity = 'common'; the first match of the pattern in rawAnalysis, in
\* lower case, replaces it
Rarity(rawAnalysis) ==
  LET hits == {i \in 1..Len(rawAnalysis) : RarityMatchAt(rawAnalysis, i) # {}}
  IN IF hits = {} THEN "common"
     ELSE LET w == CHOOSE w \in RarityMatchAt(rawAnalysis, Min(hits)) : TRUE
          IN ToLowerCase(SubSeq(rawAnalysis, Min(hits), Min(hits) + Len(w) - 1))

\* where the pieces of a heading end when they stand at position i, each
\* after a \s*; 0 when they do not
RECURSIVE PiecesEnd(_, _, _)
PiecesEnd(s, i, pieces) ==
  IF Len(pieces) = 0 THEN i
  ELSE LET j == SkipSpaces(s, i)
       IN IF MatchesAt(s, j, pieces[1])
            THEN PiecesEnd(s, j + Len(pieces[1]), Tail(pieces))
            ELSE 0

\* where /###?\s*<pieces>/i ends when it matches at position i; 0 otherwise
HeadingEnd(s, i, pieces) ==
  IF Slice(s, i, i + 1) # "##" THEN 0
  ELSE PiecesEnd(s, IF CharAt(s, i + 2) = "#" THEN i + 3 ELSE i + 2, pieces)

\* rawAnalysis.match(/###?\s*<pieces>([\s\S]*?)(?=###|$)/i): the group, from
\* the end of the first such heading to the next ### or the end of the text
Section(s, pieces) ==
  LET starts == {i \in 1..Len(s) : HeadingEnd(s, i, pieces) # 0}
  IN IF starts = {} THEN [match |-> FALSE, text |-> ""]
     ELSE LET from == HeadingEnd(s, Min(starts), pieces)
              stops == {j \in from..Len(s) : Slice(s, j, j + 2) = "###"}
          IN [match |-> TRUE,
              text |-> Slice(s, from, IF stops = {} THEN Len(s) ELSE Min(stops) - 1)]

\* knownPlatforms
KnownPlatforms ==
  << "Grailed", "Depop", "eBay", "Poshmark", "Vinted", "Vestiaire Collective",
     "The RealReal", "StockX", "GOAT", "Stadium Goods", "Mercari", "Etsy",
     "Facebook Marketplace", "Instagram", "Craigslist", "Carousell" >>

\* the length of the match of /[,;]|\sand\s|\sor\s/i at position i, 0 when
\* there is none
SeparatorAt(s, i) ==
  IF CharAt(s, i) \in {",", ";"} THEN 1
  ELSE IF IsSpace(s, i) /\ MatchesAt(s, i + 1, "and") /\ IsSpace(s, i + 4) THEN 5
  ELSE IF IsSpace(s, i) /\ MatchesAt(s, i + 1, "or") /\ IsSpace(s, i + 3) THEN 4
  ELSE 0

\* text.split(/[,;]|\sand\s|\sor\s/i)
RECURSIVE SplitParts(_)
SplitParts(s) ==
  LET seps == {i \in 1..Len(s) : SeparatorAt(s, i) # 0}
  IN IF seps = {} THEN << s >>
     ELSE << Slice(s, 1, Min(seps) - 1) >>
            \o SplitParts(Slice(s, Min(seps) + SeparatorAt(s, Min(seps)), Len(s)))

\* the short-names length limit of the filter
MaxNameLen == 30

\* .slice(0, 5)
MaxPlatforms == 5

\* parts.map(trim).filter(length > 0 && length < 30)
RECURSIVE ShortNames(_)
ShortNames(parts) ==
  IF Len(parts) = 0 THEN << >>
  ELSE LET name == Trim(parts[1])
       IN (IF Len(name) > 0 /\ Len(name) < MaxNameLen THEN << name >> ELSE << >>)
            \o ShortNames(Tail(parts))

\* the known platforms the text names, in the order of knownPlatforms
FoundPlatforms(text) ==
  SelectSeq(KnownPlatforms,
            LAMBDA platform : Includes(ToLowerCase(text), ToLowerCase(platform)))

\* extractPlatformNames
ExtractPlatformNames(text) ==
  LET names == ShortNames(SplitParts(text))
  IN IF Len(FoundPlatforms(text)) > 0 THEN FoundPlatforms(text)
     ELSE SubSeq(names, 1, IF Len(names) < MaxPlatforms THEN Len(names) ELSE MaxPlatforms)

\* where /resale\s+platform[s]?[:\s]+/i ends when it matches at position i;
\* 0 otherwise
ResaleLabelEnd(s, i) ==
  LET j == SkipSpaces(s, i + 6)
      k == IF ToLowerCase(CharAt(s, j + 8)) = "s" THEN j + 9 ELSE j + 8
      end == Min({m \in k..(Len(s) + 1) : ~(IsSpace(s, m) \/ CharAt(s, m) = ":")})
  IN IF MatchesAt(s, i, "resale") /\ j > i + 6 /\ MatchesAt(s, j, "platform") /\ end > k
       THEN end ELSE 0

\* the lookahead (?=\n\n|investment|styling|comparable|cultural|$) at position j
ResaleStopAt(s, j) ==
  \/ j > Len(s)
  \/ Slice(s, j, j + 1) = "\n\n"
  \/ \E w \in {"investment", "styling", "comparable", "cultural"} : MatchesAt(s, j, w)

\* obsText.match(/resale\s+platform[s]?[:\s]+([\s\S]*?)(?=...)/i): the group
ResaleMatch(obsText) ==
  LET starts == {i \in 1..Len(obsText) : ResaleLabelEnd(obsText, i) # 0}
  IN IF starts = {} THEN [match |-> FALSE, text |-> ""]
     ELSE LET from == ResaleLabelEnd(obsText, Min(starts))
              stop == Min({j \in from..(Len(obsText) + 1) : ResaleStopAt(obsText, j)})
          IN [match |-> TRUE, text |-> Slice(obsText, from, stop - 1)]

\* additionalObservations.resalePlatforms: undefined
NoResalePlatforms == [defined |-> FALSE, names |-> << >>]

\* the resale platforms of the ADDITIONAL OBSERVATIONS section: set when the
\* section and the label are there and extractPlatformNames returns a name
ResalePlatforms(rawAnalysis) ==
  LET obsSection == Section(rawAnalysis, << "6.", "additional", "observations" >>)
      resaleMatch == ResaleMatch(obsSection.text)
      platforms == ExtractPlatformNames(Trim(resaleMatch.text))
  IN IF obsSection.match /\ resaleMatch.match /\ Len(platforms) > 0
       THEN [defined |-> TRUE, names |-> platforms]
       ELSE NoResalePlatforms

\* the pieces of the heading pattern /###?\s*3\.\s*ERA\s*&\s*DATING/i
EraHeading == << "3.", "era", "&", "dating" >>

\* /\b(19\d0s|20\d0s|1940s|...|2020s)\b/i matches at position i; the named
\* decades are instances of the first two alternatives
DecadeMatchAt(s, i) ==
  /\ WordBoundary(s, i)
  /\ Slice(s, i, i + 1) \in {"19", "20"}
  /\ CharAt(s, i + 2) \in Digits
  /\ CharAt(s, i + 3) = "0"
  /\ ToLowerCase(CharAt(s, i + 4)) = "s"
  /\ WordBoundary(s, i + 5)

\* the first match of the decade pattern in the text, '' when there is none
Decade(text) ==
  LET hits == {i \in 1..Len(text) : DecadeMatchAt(text, i)}
  IN IF hits = {} THEN "" ELSE Slice(text, Min(hits), Min(hits) + 4)

\* eraText.indexOf('\n'), counted from 1; 0 when there is no line end
IndexOfNewline(text) ==
  LET ends == {i \in 1..Len(text) : CharAt(text, i) = "\n"}
  IN IF ends = {} THEN 0 ELSE Min(ends)

\* eraText.split('\n')[0]
FirstLine(text) ==
  IF IndexOfNewline(text) = 0 THEN text ELSE Slice(text, 1, IndexOfNewline(text) - 1)

\* x || fallback for strings
OrElse(x, fallback) == IF x = "" THEN fallback ELSE x

\* era.decade: decade || undefined
OptionalString(x) == [defined |-> x # "", value |-> x]

\* variant: the decade is looked for in the whole narrative
EraDecadeAnywhere(rawAnalysis) ==
  LET eraSection == Section(rawAnalysis, EraHeading)
      eraText == eraSection.text
  IN IF eraSection.match
       THEN [classification |-> OrElse(Trim(FirstLine(eraText)), "Modern"),
             rationale |->
               OrElse(Trim(Slice(eraText, IndexOfNewline(eraText), Len(eraText))),
                      "Based on style and condition indicators"),
             decade |-> OptionalString(Decade(rawAnalysis))]
       ELSE [classification |-> "Modern",
             rationale |-> "Based on style and condition indicators",
             decade |-> OptionalString(Decade(rawAnalysis))]

\* the era of the analysis: the defaults, replaced from the ERA & DATING
\* section when the narrative has one
Era(rawAnalysis) ==
  LET eraSection == Section(rawAnalysis, EraHeading)
      eraText == eraSection.text
  IN IF eraSection.match
       THEN [classification |-> OrElse(Trim(FirstLine(eraText)), "Modern"),
             rationale |->
               OrElse(Trim(Slice(eraText, IndexOfNewline(eraText), Len(eraText))),
                      "Based on style and condition indicators"),
             decade |-> OptionalString(Decade(eraText))]
       ELSE [classification |-> "Modern",
             rationale |-> "Based on style and condition indicators",
             decade |-> OptionalString("")]

\* -------------------------------------------------------------- upload.ts
\* variant: the price call is made before the authenticity call
NextStagePriceFirst(stage) ==
  CASE stage = "processImages" -> "analyzeImages"
    [] stage = "analyzeImages" -> "estimatePrice"
    [] stage = "estimatePrice" -> "computeAuthenticity"
    [] stage = "computeAuthenticity" -> "gcs"
    [] stage = "gcs" -> "saveSession"
    [] stage = "saveSession" -> "logAnalysis"
    [] OTHER -> "done"

\* the awaits of the handler, in program order
NextStage(stage) ==
  CASE stage = "processImages" -> "analyzeImages"
    [] stage = "analyzeImages" -> "computeAuthenticity"
    [] stage = "computeAuthenticity" -> "estimatePrice"
    [] stage = "estimatePrice" -> "gcs"
    [] stage = "gcs" -> "saveSession"
    [] stage = "saveSession" -> "logAnalysis"
    [] OTHER -> "done"

\* a reference to the i-th image of a request: the path of its temporary file
\* (tmp) or of its thumbnail file (thumb) in the temp directory, the public
\* URL of the object uploaded for it under uploads/originals (gcs) or
\* uploads/thumbnails (gcsThumb), or the URL createThumbnailUrl makes of the
\* base name of its thumbnail path (url)
ImageRef(kind, i) == [kind |-> kind, i |-> i]

\* one POST /api/analyze request: the locals of the handler, the files of the
\* request in the temp directory (tmpFiles, their names are unique to the
\* request) and the objects it uploaded to the bucket
AnalyzeIdle ==
  [pc |-> "idle", files |-> 0, narrative |-> "", textResponse |-> << >>,
   authenticity |-> NoAnalysis.authenticity,
   priceEstimate |-> NoAnalysis.priceEstimate,
   rarity |-> NoAnalysis.rarity,
   resalePlatforms |-> NoAnalysis.resalePlatforms,
   era |-> NoAnalysis.era,
   sessionId |-> "", data |-> NoData, expiresAt |-> 0,
   status |-> 0, failedAt |-> "", trace |-> << >>, sets |-> 0, rejected |-> "",
   tmpFiles |-> {}, thumbnails |-> << >>, objects |-> {}]

VARIABLES now, store, env, chat, overlapped, sweep, an, uuids, api

\* a call of createThumbnailUrl
VARIABLES thumb

\* the state of the server: clock, store, configuration and requests
server == << now, store, env, chat, overlapped, sweep, an, uuids, api >>

\* a chat component of the client (ChatBox or Chatbot), its upload page and
\* a progressive loader
VARIABLES box, page, loader

\* the state of the client components
client == << box, page, loader >>

\* what runs apart from the route handlers
apart == << thumb, client >>

vars == << server, apart >>

\* one POST /api/chat request: the locals of the handler (doc is the snapshot
\* getSession read, result what getSession returned, session the object the
\* handler holds), and what the request did: model calls made, whether the
\* model call failed, set and delete writes that landed
ChatIdle ==
  [pc |-> "idle", sessionId |-> "", message |-> "", doc |-> NoDoc,
   result |-> "", session |-> NoData, expiresAt |-> 0, response |-> "",
   status |-> 0, calls |-> 0, failed |-> FALSE, sets |-> 0, dels |-> 0]

\* the cleanup timer: the cutoff it took and the documents of its batch
SweepIdle == [pc |-> "idle", cutoff |-> 0, batch |-> {}]

\* a caller of the exported deleteSession: the id it passed, the calls that
\* returned, and whether the last one returned normally
ApiIdle == [pc |-> "idle", id |-> "", returned |-> 0]

\* no call of createThumbnailUrl has been made
ThumbIdle ==
  [pc |-> "idle", platform |-> "", bucket |-> "", protocol |-> "", host |-> "",
   filePath |-> "", url |-> "", again |-> ""]

\* a chat component (ChatBox or Chatbot) as mounted: useState([]), useState(''), useState(false);
\* calls holds the position of every handleSend call that passed its guard,
\* sends counts the calls of handleSend
BoxIdle == [messages |-> << >>, input |-> "", isLoading |-> FALSE,
            calls |-> << >>, sends |-> 0]

\* the upload page as mounted: its useState values; submits holds, for every
\* call of handleSubmit, its position and whether the files of its closure
\* are none
PageIdle ==
  [files |-> << >>, previews |-> << >>, isDragging |-> FALSE,
   isLoading |-> FALSE, progress |-> "", error |-> "", submits |-> << >>]

\* a progressive loader before it is mounted: its steps and active props,
\* its statuses, the step timers and the 300 ms timer that are pending, the
\* times active became true, and the calls of onComplete since the last one
LoaderIdle ==
  [pc |-> "idle", steps |-> << >>, active |-> FALSE, statuses |-> << >>,
   timers |-> {}, settleTimer |-> FALSE, activations |-> 0, completes |-> 0]

\* nothing runs apart from the route handlers
ApartIdle ==
  /\ thumb = ThumbIdle
  /\ box = BoxIdle
  /\ page = PageIdle
  /\ loader = LoaderIdle

Init ==
  /\ now = 0
  /\ store = << >>
  /\ env \in [geminiKey : {TRUE}, flashKey : BOOLEAN]
  /\ chat = [r \in ChatReqs |-> ChatIdle]
  /\ overlapped = {}
  /\ sweep = SweepIdle
  /\ api = ApiIdle
  /\ an = [a \in AnalyzeReqs |-> AnalyzeIdle]
  /\ uuids = {}
  /\ ApartIdle

\* ------------------------------------------------------ POST /api/chat steps
\* the response is sent and the locals of the handler go away
ChatFinish(c, code) ==
  [c EXCEPT !.pc = "done", !.status = code, !.doc = NoDoc, !.session = NoData,
            !.expiresAt = 0]

\* the request arrives: field validation, then getSession is awaited
ChatReceive(r, sid, msg) ==
  /\ chat[r].pc = "idle"
  /\ LET c == [chat[r] EXCEPT !.sessionId = sid, !.message = msg]
     IN chat' = [chat EXCEPT ![r] =
          IF ChatMissingFields(sid, msg)
            THEN ChatFinish(c, 400)
            ELSE [c EXCEPT !.pc = "getSession"]]
  /\ UNCHANGED << now, store, env, sweep, an, uuids, overlapped, api, apart >>

\* getSession resumes with the snapshot: absent -> 404; expired -> the delete
\* is awaited; found -> the context is built and askGemini is called
\* (ensureFlashKey throws when the key is not configured -> 500)
ChatGetSession(r) ==
  /\ chat[r].pc = "getSession"
  /\ LET payload == DocGet(store, chat[r].sessionId)
         branch == GetSessionBranch(payload, now)
         c == [chat[r] EXCEPT !.doc = payload]
         s == [c EXCEPT !.result = "session", !.session = payload.data]
     IN chat' = [chat EXCEPT ![r] =
          CASE branch = "absent" -> ChatFinish([c EXCEPT !.result = "null"], 404)
            [] branch = "expired" -> [c EXCEPT !.pc = "expire"]
            [] OTHER ->
                 IF ~env.flashKey
                   THEN ChatFinish([s EXCEPT !.failed = TRUE], 500)
                   ELSE [s EXCEPT !.pc = "askGemini", !.calls = @ + 1]]
  /\ UNCHANGED << now, store, env, sweep, an, uuids, overlapped, api, apart >>

\* lazy expiry: the delete of getSession completes, getSession returns null
ChatExpireDelete(r) ==
  /\ chat[r].pc = "expire"
  /\ store' = DocDelete(store, chat[r].sessionId)
  /\ chat' = [chat EXCEPT ![r] =
       ChatFinish([@ EXCEPT !.dels = @ + 1, !.result = "null"], 404)]
  /\ UNCHANGED << now, env, sweep, an, uuids, overlapped, api, apart >>

\* the chat model answers: both turns are pushed and updateSession is awaited
ChatModelReply(r, text) ==
  /\ chat[r].pc = "askGemini"
  /\ LET response == AskGeminiText(text)
         history == PushTurns(chat[r].session.conversationHistory,
                              chat[r].message, response)
     IN chat' = [chat EXCEPT ![r] =
          [@ EXCEPT !.response = response,
                    !.session = [@ EXCEPT !.conversationHistory = history],
                    !.expiresAt = NewExpiresAt(now),
                    !.pc = "updateSession"]]
  /\ UNCHANGED << now, store, env, sweep, an, uuids, overlapped, api, apart >>

\* variant: the user turn is stored before the failure is reported
ChatModelFailKeepsQuestion(r) ==
  /\ chat[r].pc = "askGemini"
  /\ store' = DocSetMerge(store, chat[r].sessionId,
       [data |-> [chat[r].session EXCEPT !.conversationHistory =
                    @ \o << [role |-> "user", content |-> chat[r].message] >>],
        expiresAt |-> NewExpiresAt(now)])
  /\ chat' = [chat EXCEPT ![r] =
       [@ EXCEPT !.pc = "done", !.status = 500, !.failed = TRUE, !.sets = @ + 1,
                 !.doc = NoDoc, !.session = NoData]]
  /\ UNCHANGED << now, env, overlapped, sweep, an, uuids, api, apart >>

\* the chat model call fails (transport error, timeout, non-success status)
ChatModelFail(r) ==
  /\ chat[r].pc = "askGemini"
  /\ chat' = [chat EXCEPT ![r] = ChatFinish([@ EXCEPT !.failed = TRUE], 500)]
  /\ UNCHANGED << now, store, env, sweep, an, uuids, overlapped, api, apart >>

\* the other chat requests that hold a session read from sid and have not
\* written it back yet
InFlightOn(sid, r) ==
  {q \in ChatReqs \ {r} :
     chat[q].sessionId = sid /\ chat[q].pc \in {"askGemini", "updateSession"}}

\* the write of updateSession lands, then res.json({ response })
ChatUpdateSession(r) ==
  /\ chat[r].pc = "updateSession"
  /\ store' = DocSetMerge(store, chat[r].sessionId,
                          [data |-> chat[r].session, expiresAt |-> chat[r].expiresAt])
  /\ chat' = [chat EXCEPT ![r] = ChatFinish([@ EXCEPT !.sets = @ + 1], 200)]
  /\ overlapped' = overlapped \cup InFlightOn(chat[r].sessionId, r)
  /\ UNCHANGED << now, env, sweep, an, uuids, api, apart >>

\* ---------------------------------------------------- startSessionCleanup
\* where('expiresAt', '<', cutoff).get()
SweepExpired(st, cutoff) == {id \in DOMAIN st : st[id].expiresAt < cutoff}

\* the timer fires: const cutoff = Date.now(), and the query is awaited
SweepStart ==
  /\ sweep.pc = "idle"
  /\ sweep' = [pc |-> "query", cutoff |-> now, batch |-> {}]
  /\ UNCHANGED << now, store, env, chat, overlapped, an, uuids, api, apart >>

\* the snapshot arrives; a delete per document goes into the batch and, when
\* there is one, batch.commit() is awaited
SweepQuery ==
  /\ sweep.pc = "query"
  /\ LET batch == SweepExpired(store, sweep.cutoff)
     IN sweep' = IF batch = {} THEN SweepIdle
                 ELSE [sweep EXCEPT !.pc = "commit", !.batch = batch]
  /\ UNCHANGED << now, store, env, chat, overlapped, an, uuids, api, apart >>

\* batch.commit()
SweepCommit ==
  /\ sweep.pc = "commit"
  /\ store' = [x \in (DOMAIN store) \ sweep.batch |-> store[x]]
  /\ sweep' = SweepIdle
  /\ UNCHANGED << now, env, chat, overlapped, an, uuids, api, apart >>

\* ------------------------------------------------------------ deleteSession
\* deleteSession(id) is called and the delete is awaited
DeleteSessionCall(id) ==
  /\ api.pc = "idle"
  /\ api.returned < MaxDeletes
  /\ api' = [api EXCEPT !.pc = "delete", !.id = id]
  /\ UNCHANGED << now, store, env, chat, overlapped, sweep, an, uuids, apart >>

\* variant: deleting a document that does not exist is an error the caller sees
DeleteSessionThrowsOnAbsent ==
  /\ api.pc = "delete"
  /\ store' = DocDelete(store, api.id)
  /\ api' = [api EXCEPT !.pc = "idle",
                        !.returned = IF api.id \in DOMAIN store THEN @ + 1 ELSE @]
  /\ UNCHANGED << now, env, chat, overlapped, sweep, an, uuids, apart >>

\* the delete completes and deleteSession returns
DeleteSessionReturn ==
  /\ api.pc = "delete"
  /\ store' = DocDelete(store, api.id)
  /\ api' = [api EXCEPT !.pc = "idle", !.returned = @ + 1]
  /\ UNCHANGED << now, env, chat, overlapped, sweep, an, uuids, apart >>

\* ------------------------------------------------------------------- clock
Tick ==
  /\ now < MaxTime
  /\ now' = now + 1
  /\ UNCHANGED << store, env, chat, overlapped, sweep, an, uuids, api, apart >>

\* --------------------------------------------------- POST /api/analyze steps
AnalyzeFinish(x, code) == [x EXCEPT !.pc = "done", !.status = code]

\* the awaited call of a stage returns and the call of the next one is made
Advance(x, stage) ==
  [x EXCEPT !.pc = NextStage(stage),
            !.trace = @ \o << << stage, "return" >>, << NextStage(stage), "call" >> >>]

\* the catch block of the handler: 500 with the error message
AnalyzeThrow(x, stage) ==
  AnalyzeFinish([x EXCEPT !.failedAt = stage,
                          !.trace = @ \o << << stage, "throw" >> >>], 500)

\* the request arrives: an upload the middleware rejects goes to the error
\* handling middleware; in the handler, 503 without the API key, 400 without
\* files; the buffers are written to the temp directory and processImages is
\* awaited
AnalyzeReceive(a, files) ==
  /\ an[a].pc = "idle"
  /\ LET err == UploadMiddleware(files)
         n == Len(files)
         x == [an[a] EXCEPT !.files = n]
     IN an' = [an EXCEPT ![a] =
          IF err.message # ""
            THEN AnalyzeFinish([x EXCEPT !.rejected = err.message], ErrorStatus(err))
          ELSE IF ~env.geminiKey THEN AnalyzeFinish(x, 503)
          ELSE IF n = 0 THEN AnalyzeFinish(x, 400)
          ELSE [x EXCEPT !.pc = "processImages",
                         !.tmpFiles = {ImageRef("tmp", i) : i \in 1..n},
                         !.trace = << << "processImages", "call" >> >>]]
  /\ UNCHANGED << now, store, env, chat, overlapped, sweep, uuids, api, apart >>

\* processImages returns the thumbnail paths: a thumbnail file is written
\* next to each image, and for an image sharp fails on (those in failed) the
\* path of the image itself is used; analyzeImages is awaited
AnalyzeProcessImages(a, failed) ==
  /\ an[a].pc = "processImages"
  /\ failed \subseteq 1..an[a].files
  /\ LET made == (1..an[a].files) \ failed
     IN an' = [an EXCEPT ![a] =
          Advance([@ EXCEPT
                     !.thumbnails = [i \in 1..an[a].files |->
                                       IF i \in failed THEN ImageRef("tmp", i)
                                       ELSE ImageRef("thumb", i)],
                     !.tmpFiles = @ \cup {ImageRef("thumb", i) : i \in made}],
                  "processImages")]
  /\ UNCHANGED << now, store, env, chat, overlapped, sweep, uuids, api, apart >>

\* the narrative call returns its text; computeAuthenticityWithAI is awaited
AnalyzeNarrative(a, text) ==
  /\ an[a].pc = "analyzeImages"
  /\ an' = [an EXCEPT ![a] = Advance([@ EXCEPT !.narrative = text], "analyzeImages")]
  /\ UNCHANGED << now, store, env, chat, overlapped, sweep, uuids, api, apart >>

\* the calls of a stage the handler made
CallsOf(trace, stage) ==
  Cardinality({i \in 1..Len(trace) : trace[i] = << stage, "call" >>})

\* variant: a failed model call is issued once more before the request fails
AnalyzeCallFailRetry(a) ==
  /\ an[a].pc \in {"analyzeImages", "computeAuthenticity", "estimatePrice"}
  /\ an' = [an EXCEPT ![a] =
       IF CallsOf(an[a].trace, an[a].pc) < 2
         THEN [@ EXCEPT !.trace = @ \o << << an[a].pc, "throw" >>, << an[a].pc, "call" >> >>]
         ELSE AnalyzeThrow(@, an[a].pc)]
  /\ UNCHANGED << now, store, env, chat, overlapped, sweep, uuids, api, apart >>

\* a model call fails: transport error, timeout or non-success status
AnalyzeCallFail(a) ==
  /\ an[a].pc \in {"analyzeImages", "computeAuthenticity", "estimatePrice"}
  /\ an' = [an EXCEPT ![a] = AnalyzeThrow(@, an[a].pc)]
  /\ UNCHANGED << now, store, env, chat, overlapped, sweep, uuids, api, apart >>

\* the authenticity call returns its text: the JSON is extracted, or the
\* call throws; estimatePriceWithAI is awaited
AnalyzeAuthenticity(a, text) ==
  /\ an[a].pc = "computeAuthenticity"
  /\ LET r == ParseModelJson(text)
         x == [an[a] EXCEPT !.textResponse = text]
     IN an' = [an EXCEPT ![a] =
          IF ~r.ok THEN AnalyzeThrow(x, "computeAuthenticity")
          ELSE Advance([x EXCEPT !.authenticity = AuthenticityResult(r.parsed)],
                       "computeAuthenticity")]
  /\ UNCHANGED << now, store, env, chat, overlapped, sweep, uuids, api, apart >>

\* the price call returns its text: the JSON is extracted, or the call
\* throws; the fields of the narrative are parsed, the analysis is compiled
\* and the uploads to GCS are awaited
AnalyzePrice(a, text) ==
  /\ an[a].pc = "estimatePrice"
  /\ LET r == ParseModelJson(text)
         x == [an[a] EXCEPT !.textResponse = text]
         rawAnalysis == an[a].narrative
     IN an' = [an EXCEPT ![a] =
          IF ~r.ok THEN AnalyzeThrow(x, "estimatePrice")
          ELSE Advance([x EXCEPT !.priceEstimate = PriceEstimate(r.parsed),
                                 !.rarity = Rarity(rawAnalysis),
                                 !.resalePlatforms = ResalePlatforms(rawAnalysis),
                                 !.era = Era(rawAnalysis)],
                       "estimatePrice")]
  /\ UNCHANGED << now, store, env, chat, overlapped, sweep, uuids, api, apart >>

\* uploadedOriginals.length ? uploadedOriginals.map(publicUrl) : localPaths
ImagePaths(n, uploaded) ==
  IF uploaded > 0
    THEN [i \in 1..(IF uploaded < n THEN uploaded ELSE n) |-> ImageRef("gcs", i)]
    ELSE [i \in 1..n |-> ImageRef("tmp", i)]

\* the originals that went through when `uploaded` uploads did: the images
\* are uploaded first, in order, then the thumbnails
UploadedOriginals(n, uploaded) == IF uploaded < n THEN uploaded ELSE n

UploadedThumbs(n, uploaded) == IF uploaded > n THEN uploaded - n ELSE 0

\* analysis.thumbnails: the public URLs of the uploaded thumbnails when there
\* is one, else createThumbnailUrl of every thumbnail path
AnalysisThumbnails(n, uploaded) ==
  IF UploadedThumbs(n, uploaded) > 0
    THEN [i \in 1..UploadedThumbs(n, uploaded) |-> ImageRef("gcsThumb", i)]
    ELSE [i \in 1..n |-> ImageRef("url", i)]

\* the GCS uploads end, after `uploaded` files went through (a failure is
\* caught and ends the loops); the temporary files are unlinked;
\* analysis.thumbnails is set; uuidv4() names the session, saveSession is
\* awaited
AnalyzeGcs(a, uploaded, id) ==
  /\ an[a].pc = "gcs"
  /\ uploaded <= 2 * an[a].files
  /\ id \notin uuids
  /\ uuids' = uuids \cup {id}
  /\ LET x == an[a]
         data == [imagePaths |-> ImagePaths(x.files, uploaded),
                  analysis |-> [authenticity |-> x.authenticity,
                                priceEstimate |-> x.priceEstimate,
                                narrative |-> x.narrative,
                                rarity |-> x.rarity,
                                resalePlatforms |-> x.resalePlatforms,
                                era |-> x.era,
                                thumbnails |-> AnalysisThumbnails(x.files, uploaded)],
                  conversationHistory |-> << >>]
     IN an' = [an EXCEPT ![a] =
          Advance([@ EXCEPT
                     !.objects =
                       {ImageRef("gcs", i) : i \in 1..UploadedOriginals(x.files, uploaded)}
                         \cup {ImageRef("gcsThumb", i) :
                                 i \in 1..UploadedThumbs(x.files, uploaded)},
                     !.tmpFiles = @ \ ({ImageRef("tmp", i) : i \in 1..x.files}
                                         \cup {x.thumbnails[i] : i \in 1..x.files}),
                     !.sessionId = id, !.data = data,
                     !.expiresAt = NewExpiresAt(now)], "gcs")]
  /\ UNCHANGED << now, store, env, chat, overlapped, sweep, api, apart >>

\* the write of saveSession lands; firestore.logAnalysis is awaited
AnalyzeSaveSession(a) ==
  /\ an[a].pc = "saveSession"
  /\ store' = DocSet(store, an[a].sessionId,
                     [data |-> an[a].data, expiresAt |-> an[a].expiresAt])
  /\ an' = [an EXCEPT ![a] = Advance([@ EXCEPT !.sets = @ + 1], "saveSession")]
  /\ UNCHANGED << now, env, chat, overlapped, sweep, uuids, api, apart >>

\* logAnalysis ends (its failure is caught), then res.json
AnalyzeLog(a) ==
  /\ an[a].pc = "logAnalysis"
  /\ an' = [an EXCEPT ![a] =
       AnalyzeFinish([@ EXCEPT !.trace = @ \o << << "logAnalysis", "return" >> >>], 200)]
  /\ UNCHANGED << now, store, env, chat, overlapped, sweep, uuids, api, apart >>

\* ------------------------------------------------------------ uploadUtil.ts
\* the separators of path.basename: / and, in the win32 flavour of the path
\* module, \ too
IsSeparator(platform, c) == c = "/" \/ (platform = "win32" /\ c = "\\")

\* path.basename(filePath) of the path module the platform gives: the part
\* after the last separator, trailing separators and a drive letter aside
Basename(platform, filePath) ==
  LET drive == /\ platform = "win32"
               /\ CharAt(filePath, 1) \in UpperCaseLetters \cup LowerCaseLetters
               /\ CharAt(filePath, 2) = ":"
      start == IF drive THEN 3 ELSE 1
      named == {i \in start..Len(filePath) : ~IsSeparator(platform, CharAt(filePath, i))}
  IN IF named = {} THEN ""
     ELSE LET seps == {i \in start..Max(named) :
                         IsSeparator(platform, CharAt(filePath, i))}
          IN Slice(filePath, IF seps = {} THEN start ELSE Max(seps) + 1, Max(named))

\* /^https?:\/\//i.test(filePath)
LooksLikeUrl(filePath) ==
  MatchesAt(filePath, 1, "http://") \/ MatchesAt(filePath, 1, "https://")

\* createThumbnailUrl(req, filePath), with process.platform and
\* process.env.GCS_BUCKET_NAME ('' when not set)
CreateThumbnailUrl(platform, bucket, protocol, host, filePath) ==
  IF LooksLikeUrl(filePath) THEN filePath
  ELSE IF bucket # ""
    THEN "https://storage.googleapis.com/" \o bucket \o "/" \o Basename(platform, filePath)
  ELSE protocol \o "://" \o host \o "/uploads/" \o Basename(platform, filePath)

\* the unix-style and the windows-style path of the tests
UnixPath == "/some/dir/uploads/thumb_file.jpg"

WindowsPath == "C:\\projects\\repo\\server\\uploads\\thumb_file.jpg"

\* server-side paths and URLs
FilePaths ==
  {UnixPath, WindowsPath, "thumb_file.jpg", "/tmp/cloth-uploads/thumb_17-4.png",
   "uploads\\thumb_file.jpg", "/some/dir/", "C:thumb_file.jpg", "/srv/up\\thumb.jpg",
   "http://cdn.example/t/thumb_file.jpg", "HTTPS://cdn.example/t/thumb_file.jpg"}

\* createThumbnailUrl is called
ThumbCall(platform, bucket, protocol, host, filePath) ==
  /\ thumb.pc = "idle"
  /\ thumb' = [pc |-> "returned", platform |-> platform, bucket |-> bucket,
               protocol |-> protocol, host |-> host, filePath |-> filePath,
               url |-> CreateThumbnailUrl(platform, bucket, protocol, host, filePath),
               again |-> ""]
  /\ UNCHANGED << server, client >>

\* it is called on its own result
ThumbCallAgain ==
  /\ thumb.pc = "returned"
  /\ thumb' = [thumb EXCEPT
       !.pc = "returnedAgain",
       !.again = CreateThumbnailUrl(thumb.platform, thumb.bucket, thumb.protocol,
                                    thumb.host, thumb.url)]
  /\ UNCHANGED << server, client >>

\* ------------------------------------------ ChatBox.tsx and Chatbot.tsx
\* handleSend is the same function in the two components; box is the state
\* of one of them. React commits the
\* state updates of an event handler before it dispatches the next event, and
\* the updates a continuation makes after an await in one go, so each
\* handler below reads the state its closure was rendered with.

\* calls of handleSend
MaxSends == 3

\* what the user types into the input
Inputs == {"", "  ", "hi"}

\* what POST /api/chat answers
BoxReplies == {"It looks authentic."}

ServerDownMsg == "Backend server not reachable"

RefusedMsg == "Could not reach the backend server"

ErrorMsg == "Sorry, I encountered an error. Please try again."

ChatMessage(role, content) == [role |-> role, content |-> content]

\* onChange of the input, which is disabled while isLoading
SetInput(text) ==
  /\ ~box.isLoading
  /\ text # box.input
  /\ box' = [box EXCEPT !.input = text]
  /\ UNCHANGED << server, thumb, page, loader >>

\* the guard of handleSend
SendRejectedWhileLoading(b) == b.isLoading

SendRejected(b) == Trim(b.input) = "" \/ b.isLoading

\* handleSend up to its first await: the guard, the user message, the input
\* cleared, isLoading set, GET /api/health sent
HandleSend ==
  /\ box.sends < MaxSends
  /\ IF SendRejected(box)
       THEN box' = [box EXCEPT !.sends = @ + 1]
       ELSE box' = [box EXCEPT
              !.sends = @ + 1,
              !.messages = Append(@, ChatMessage("user", box.input)),
              !.input = "",
              !.isLoading = TRUE,
              !.calls = Append(@, "health")]
  /\ UNCHANGED << server, thumb, page, loader >>

\* the health check answers: POST /api/chat is sent
HealthOk(c) ==
  /\ c \in DOMAIN box.calls
  /\ box.calls[c] = "health"
  /\ box' = [box EXCEPT !.calls[c] = "chat"]
  /\ UNCHANGED << server, thumb, page, loader >>

\* a call of handleSend ends: the assistant message, isLoading cleared
EndSend(c, content) ==
  [box EXCEPT
     !.messages = Append(@, ChatMessage("assistant", content)),
     !.isLoading = FALSE,
     !.calls[c] = "ended"]

\* the health check fails or times out
HealthFail(c) ==
  /\ c \in DOMAIN box.calls
  /\ box.calls[c] = "health"
  /\ box' = EndSend(c, ServerDownMsg)
  /\ UNCHANGED << server, thumb, page, loader >>

\* POST /api/chat answers
ChatOk(c, text) ==
  /\ c \in DOMAIN box.calls
  /\ box.calls[c] = "chat"
  /\ box' = EndSend(c, text)
  /\ UNCHANGED << server, thumb, page, loader >>

\* POST /api/chat fails, with ECONNREFUSED or otherwise
ChatFail(c, refused) ==
  /\ c \in DOMAIN box.calls
  /\ box.calls[c] = "chat"
  /\ box' = EndSend(c, IF refused THEN RefusedMsg ELSE ErrorMsg)
  /\ UNCHANGED << server, thumb, page, loader >>

\* --------------------------------------------------------- UploadPage.tsx
\* calls of handleSubmit
MaxSubmits == 2

\* the most images the page keeps
MaxImages == 3

\* 8 * 1024 * 1024
MaxFileSize == 8388608

\* files the user can pick: two the page accepts (one of exactly 8 MB), one
\* of another type and one too large
FileA == [name |-> "a.jpg", type |-> "image/jpeg", size |-> 1024]

FileB == [name |-> "b.png", type |-> "image/png", size |-> MaxFileSize]

FileC == [name |-> "c.gif", type |-> "image/gif", size |-> 10]

FileD == [name |-> "d.jpg", type |-> "image/jpg", size |-> MaxFileSize + 1]

\* the FileList of a selection or of a drop, null included
FileLists ==
  {[null |-> TRUE, files |-> << >>]}
    \cup {[null |-> FALSE, files |-> fs] :
            fs \in {<< >>, << FileA >>, << FileB >>, << FileC >>, << FileD >>,
                    << FileA, FileB >>, << FileC, FileA >>,
                    << FileB, FileA, FileB, FileA >>}}

\* file.type.match("image/(jpeg|jpg|png)")
TypeAllowed(file) ==
  \/ Includes(file.type, "image/jpeg")
  \/ Includes(file.type, "image/jpg")
  \/ Includes(file.type, "image/png")

IsValidFile(file) == TypeAllowed(file) /\ ~(file.size > MaxFileSize)

\* URL.createObjectURL(file)
CreateObjectURL(file) == "blob:" \o file.name

\* the message pushed for a file that is turned down
SelectError(file) ==
  IF ~TypeAllowed(file) THEN file.name \o ": Only JPG, JPEG, PNG allowed"
  ELSE file.name \o ": Max size 8MB"

\* errors.join("; ")
RECURSIVE JoinErrors(_)
JoinErrors(errors) ==
  IF Len(errors) = 0 THEN ""
  ELSE IF Len(errors) = 1 THEN errors[1]
  ELSE errors[1] \o "; " \o JoinErrors(Tail(errors))

\* array.slice(0, n)
SliceTo(seq, n) == SubSeq(seq, 1, IF Len(seq) < n THEN Len(seq) ELSE n)

\* array.filter((_, x) => x !== i), i counted from 1
FilterIndex(seq, i) ==
  [x \in 1..(Len(seq) - 1) |-> IF x < i THEN seq[x] ELSE seq[x + 1]]

\* the state handleFileSelect leaves
AfterFileSelect(pg, selectedFiles) ==
  IF selectedFiles.null THEN pg
  ELSE
    LET fileArray == selectedFiles.files
        valid == SelectSeq(fileArray, IsValidFile)
        previewList == [i \in 1..Len(valid) |-> CreateObjectURL(valid[i])]
        errors == [i \in 1..Len(SelectSeq(fileArray, LAMBDA f : ~IsValidFile(f)))
                     |-> SelectError(SelectSeq(fileArray, LAMBDA f : ~IsValidFile(f))[i])]
        combinedFiles == pg.files \o valid
        combinedPreview == pg.previews \o previewList
    IN IF Len(combinedFiles) > MaxImages
         THEN [pg EXCEPT !.files = SliceTo(combinedFiles, MaxImages),
                         !.previews = SliceTo(combinedPreview, MaxImages),
                         !.error = "Maximum 3 images allowed."]
         ELSE [pg EXCEPT !.files = combinedFiles,
                         !.previews = combinedPreview,
                         !.error = JoinErrors(errors)]

\* the form (drop zone, file input, remove buttons, submit button) is
\* rendered while isLoading is false
FormShown == ~page.isLoading

\* onChange of the file input
HandleFileSelect(selectedFiles) ==
  /\ FormShown
  /\ page' = AfterFileSelect(page, selectedFiles)
  /\ UNCHANGED << server, thumb, box, loader >>

HandleDragOver ==
  /\ FormShown
  /\ page' = [page EXCEPT !.isDragging = TRUE]
  /\ UNCHANGED << server, thumb, box, loader >>

HandleDragLeave ==
  /\ FormShown
  /\ page' = [page EXCEPT !.isDragging = FALSE]
  /\ UNCHANGED << server, thumb, box, loader >>

HandleDrop(selectedFiles) ==
  /\ FormShown
  /\ page' = AfterFileSelect([page EXCEPT !.isDragging = FALSE], selectedFiles)
  /\ UNCHANGED << server, thumb, box, loader >>

\* the remove button of preview i
RemoveFile(i) ==
  /\ FormShown
  /\ i \in 1..Len(page.previews)
  /\ page' = [page EXCEPT !.files = FilterIndex(@, i),
                          !.previews = FilterIndex(@, i)]
  /\ UNCHANGED << server, thumb, box, loader >>

\* a click on the submit button, which is disabled without files:
\* handleSubmit sends GET /api/health and awaits it
HandleSubmit ==
  /\ FormShown
  /\ Len(page.files) > 0
  /\ Len(page.submits) < MaxSubmits
  /\ page' = [page EXCEPT
       !.submits = Append(@, [pc |-> "health", empty |-> Len(page.files) = 0])]
  /\ UNCHANGED << server, thumb, box, loader >>

\* the health check of call c fails or times out
SubmitHealthFail(c) ==
  /\ c \in DOMAIN page.submits
  /\ page.submits[c].pc = "health"
  /\ page' = [page EXCEPT !.error = "Backend server unreachable",
                          !.submits[c].pc = "ended"]
  /\ UNCHANGED << server, thumb, box, loader >>

\* the health check of call c answers: without files the call ends, else
\* isLoading is set and POST /api/analyze is sent
SubmitHealthOk(c) ==
  /\ c \in DOMAIN page.submits
  /\ page.submits[c].pc = "health"
  /\ IF page.submits[c].empty
       THEN page' = [page EXCEPT !.error = "Please select at least one image",
                                 !.submits[c].pc = "ended"]
       ELSE page' = [page EXCEPT !.isLoading = TRUE,
                                 !.progress = "Analyzing images...",
                                 !.error = "",
                                 !.submits[c].pc = "analyze"]
  /\ UNCHANGED << server, thumb, box, loader >>

\* POST /api/analyze of call c answers: the 500 ms timer is set
SubmitAnalyzeOk(c) ==
  /\ c \in DOMAIN page.submits
  /\ page.submits[c].pc = "analyze"
  /\ page' = [page EXCEPT !.progress = "Analysis complete!",
                          !.submits[c].pc = "timer"]
  /\ UNCHANGED << server, thumb, box, loader >>

\* POST /api/analyze of call c fails or times out
SubmitAnalyzeFail(c, msg) ==
  /\ c \in DOMAIN page.submits
  /\ page.submits[c].pc = "analyze"
  /\ page' = [page EXCEPT !.error = msg,
                          !.isLoading = FALSE,
                          !.progress = "",
                          !.submits[c].pc = "ended"]
  /\ UNCHANGED << server, thumb, box, loader >>

\* the timer of call c fires: onAnalysisComplete
SubmitComplete(c) ==
  /\ c \in DOMAIN page.submits
  /\ page.submits[c].pc = "timer"
  /\ page' = [page EXCEPT !.submits[c].pc = "completed"]
  /\ UNCHANGED << server, thumb, box, loader >>

\* --------------------------------------------------- ProgressiveLoader.tsx
\* times the active prop becomes true
MaxActivations == 2

\* the steps the chat components and the upload page pass
ChatSteps == << "Sending message", "Generating response" >>

UploadSteps ==
  << "Uploading images", "Analyzing images with AI", "Checking authenticity",
     "Estimating price", "Finalizing results" >>

\* steps.map(() => status)
AllStatus(steps, status) == [i \in 1..Len(steps) |-> status]

\* the effect on [active, steps, onComplete, durationsMs]: when not active
\* every step is set done and onComplete is scheduled in 300 ms; when active
\* the statuses are reset, the first step is set active and one timer per
\* step is scheduled at the accumulated durations
RunEffect(l, active) ==
  IF ~active
    THEN [l EXCEPT !.active = FALSE,
                   !.statuses = AllStatus(l.steps, "done"),
                   !.settleTimer = TRUE]
    ELSE [l EXCEPT !.active = TRUE,
                   !.statuses = [i \in 1..Len(l.steps) |->
                                   IF i = 1 THEN "active" ELSE "pending"],
                   !.timers = 1..Len(l.steps),
                   !.activations = @ + 1,
                   !.completes = 0]

\* the cleanup the last run of the effect returned: the run with active true
\* clears every timer of timersRef, the run with active false returned none
Cleanup(l) ==
  IF l.active THEN [l EXCEPT !.timers = {}, !.settleTimer = FALSE] ELSE l

\* the component is mounted: useState(steps.map(() => 'pending')), then the
\* effect runs
LoaderMount(steps, active) ==
  /\ loader.pc = "idle"
  /\ loader' = RunEffect([loader EXCEPT !.pc = "mounted", !.steps = steps,
                                       !.statuses = AllStatus(steps, "pending")],
                         active)
  /\ UNCHANGED << server, thumb, box, page >>

\* the active prop changes: the cleanup of the last run, then the effect
LoaderSetActive(active) ==
  /\ loader.pc = "mounted"
  /\ active # loader.active
  /\ active => loader.activations < MaxActivations
  /\ loader' = RunEffect(Cleanup(loader), active)
  /\ UNCHANGED << server, thumb, box, page >>

\* the timer of step idx fires, the timers firing in the order of their
\* accumulated delays: the step is done, the next one active, and after the
\* last step onComplete is called
LoaderStepTimer(idx) ==
  /\ loader.pc = "mounted"
  /\ idx \in loader.timers
  /\ \A j \in loader.timers : idx <= j
  /\ loader' = [loader EXCEPT
       !.timers = @ \ {idx},
       !.statuses = [i \in 1..Len(@) |->
                       IF i = idx THEN "done"
                       ELSE IF i = idx + 1 THEN "active"
                       ELSE @[i]],
       !.completes = IF idx = Len(loader.steps) THEN @ + 1 ELSE @]
  /\ UNCHANGED << server, thumb, box, page >>

\* the 300 ms timer fires: onComplete is called
LoaderSettleTimer ==
  /\ loader.pc = "mounted"
  /\ loader.settleTimer
  /\ loader' = [loader EXCEPT !.settleTimer = FALSE, !.completes = @ + 1]
  /\ UNCHANGED << server, thumb, box, page >>

\* the component is unmounted: the cleanups clear every timer
LoaderUnmount ==
  /\ loader.pc = "mounted"
  /\ loader' = [loader EXCEPT !.pc = "unmounted", !.timers = {},
                              !.settleTimer = FALSE]
  /\ UNCHANGED << server, thumb, box, page >>

\* ---------------------------------------------------------- specifications
ChatNext ==
  \/ \E r \in ChatReqs, sid \in SessionIds \cup {""}, msg \in Messages \cup {""} :
       ChatReceive(r, sid, msg)
  \/ \E r \in ChatReqs : ChatGetSession(r)
  \/ \E r \in ChatReqs : ChatExpireDelete(r)
  \/ \E r \in ChatReqs, text \in ReplyTexts : ChatModelReply(r, text)
  \/ \E r \in ChatReqs : ChatModelFail(r)
  \/ \E r \in ChatReqs : ChatUpdateSession(r)

\* the steps of the analyze requests in A, with the uploads in U and GCS runs
\* that end after one of the numbers of files in K
AnalyzeNext(A, U, K) ==
  \/ \E a \in A, files \in U : AnalyzeReceive(a, files)
  \/ \E a \in A : AnalyzeProcessImages(a, {})
  \/ \E a \in A, text \in Narratives : AnalyzeNarrative(a, text)
  \/ \E a \in A : AnalyzeCallFail(a)
  \/ \E a \in A, text \in AuthReplies : AnalyzeAuthenticity(a, text)
  \/ \E a \in A, text \in PriceReplies : AnalyzePrice(a, text)
  \/ \E a \in A, k \in K, id \in SessionIds : AnalyzeGcs(a, k, id)
  \/ \E a \in A : AnalyzeSaveSession(a)
  \/ \E a \in A : AnalyzeLog(a)

\* Sessions and chat: two chat requests, the sweep and the clock around one
\* single-image analyze request on a server without a GCS bucket (every
\* upload throws) and with the vision key configured.
Next ==
  \/ ChatNext
  \/ AnalyzeNext({"a1"}, {Photos(1)}, {0})
  \/ SweepStart
  \/ SweepQuery
  \/ SweepCommit
  \/ Tick

Spec == Init /\ [][Next]_vars

\* Analyze: two analyze requests with every upload size, the GCS uploads
\* failing at the first file, after the originals or not at all, the sweep
\* and the clock; the vision key may be missing.
InitAnalyze ==
  /\ now = 0
  /\ store = << >>
  /\ env \in [geminiKey : BOOLEAN, flashKey : {TRUE}]
  /\ chat = [r \in ChatReqs |-> ChatIdle]
  /\ overlapped = {}
  /\ sweep = SweepIdle
  /\ api = ApiIdle
  /\ an = [a \in AnalyzeReqs |-> AnalyzeIdle]
  /\ uuids = {}
  /\ ApartIdle

NextAnalyze ==
  \/ AnalyzeNext(AnalyzeReqs, Uploads, {0, MaxFiles, 2 * MaxFiles})
  \/ SweepStart
  \/ SweepQuery
  \/ SweepCommit
  \/ Tick

SpecAnalyze == InitAnalyze /\ [][NextAnalyze]_vars

\* Extraction: one analyze request with one photo on a server without a GCS
\* bucket, over the replies of the two JSON calls.
InitExtract ==
  /\ now = 0
  /\ store = << >>
  /\ env = [geminiKey |-> TRUE, flashKey |-> TRUE]
  /\ chat = [r \in ChatReqs |-> ChatIdle]
  /\ overlapped = {}
  /\ sweep = SweepIdle
  /\ api = ApiIdle
  /\ an = [a \in AnalyzeReqs |-> AnalyzeIdle]
  /\ uuids = {}
  /\ ApartIdle

NextExtract ==
  \/ AnalyzeReceive("a1", Photos(1))
  \/ AnalyzeProcessImages("a1", {})
  \/ \E text \in Narratives : AnalyzeNarrative("a1", text)
  \/ AnalyzeCallFail("a1")
  \/ \E text \in ExtractAuthReplies : AnalyzeAuthenticity("a1", text)
  \/ \E text \in ExtractPriceReplies : AnalyzePrice("a1", text)
  \/ AnalyzeGcs("a1", 0, "s1")
  \/ AnalyzeSaveSession("a1")
  \/ AnalyzeLog("a1")

SpecExtract == InitExtract /\ [][NextExtract]_vars

\* narratives for the rarity pattern
RarityNarratives ==
  {"", "Rarity: Rare", "RARITY: RARE", "a rare find", "ultra-rare",
   "rarely seen", "rare_item", "plain cotton shirt",
   "Common wear. Rarity: Rare", "Rarity: Rare, not common",
   "Rarity: Uncommon", "Rarity: Epic", "Legendary", "mYTHIC piece"}

\* the heading of section 6 and the label of the resale platforms
ObsHeading == "### 6. ADDITIONAL OBSERVATIONS\nResale Platforms: "

\* candidate texts of the resale platforms
PlatformTexts ==
  {"You can sell this on Grailed, Depop or eBay",
   "eBay or depop",
   "the realreal; STOCKX",
   "goatee shops",
   "thrift shops, flea markets and online; a, b or c",
   "local thrift shops",
   "Specialized vintage consignment boutiques in major cities",
   "Specialized vintage consignment boutiques in major cities, flea markets",
   ",;"}

\* narratives for the resale platforms: the candidate texts in their section,
\* one followed by the next field, the label without its section, the
\* section without the label, and the label with nothing after it
PlatformNarratives ==
  {ObsHeading \o text : text \in PlatformTexts}
    \cup {ObsHeading \o "Vinted\n\nInvestment Potential: high, sells on eBay",
          "Resale Platforms: Grailed",
          "### 6. ADDITIONAL OBSERVATIONS\nInvestment Potential: high",
          ObsHeading}

\* narratives for the era: without the heading, with the section and a
\* decade in it, with a decade before the heading or after the next one
\* only, with an empty section, and with text on the heading line
EraNarratives ==
  {"A jacket from the 1990s",
   "ERA & DATING: Vintage, 1990s",
   "### 3. ERA & DATING\nVintage\nMade in the 1990s\n### 4. DETAILED FEATURES\n2010s lining",
   "## 3. era & dating Vintage\nfrom the 1990S\n## 4. more",
   "1980s look\n### 3. ERA & DATING\nContemporary, after 1995\n### 4. DETAILED FEATURES\n2010s lining",
   "### 3. ERA & DATING",
   "### 3. ERA & DATING   \n   \n### 4. DETAILED FEATURES",
   "###3.ERA&DATING Y2K 2000s-era\n",
   "### 3. ERA & DATING\nmodel 19901s, size 1990, 1995s"}

\* the narratives of the parsing runs
ParseNarratives == RarityNarratives \cup PlatformNarratives \cup EraNarratives

\* Parsing: one analyze request with one photo on a server without a GCS
\* bucket, over the narratives; the two JSON calls answer as usual.
InitParse ==
  /\ now = 0
  /\ store = << >>
  /\ env = [geminiKey |-> TRUE, flashKey |-> TRUE]
  /\ chat = [r \in ChatReqs |-> ChatIdle]
  /\ overlapped = {}
  /\ sweep = SweepIdle
  /\ api = ApiIdle
  /\ an = [a \in AnalyzeReqs |-> AnalyzeIdle]
  /\ uuids = {}
  /\ ApartIdle

NextParse ==
  \/ AnalyzeReceive("a1", Photos(1))
  \/ AnalyzeProcessImages("a1", {})
  \/ \E text \in ParseNarratives : AnalyzeNarrative("a1", text)
  \/ AnalyzeCallFail("a1")
  \/ AnalyzeAuthenticity("a1", AuthReply)
  \/ AnalyzePrice("a1", PriceReply)
  \/ AnalyzeGcs("a1", 0, "s1")
  \/ AnalyzeSaveSession("a1")
  \/ AnalyzeLog("a1")

SpecParse == InitParse /\ [][NextParse]_vars

\* Files: one analyze request with one photo or more, every outcome of the
\* thumbnailing, of the model calls and of the GCS uploads.
InitFiles ==
  /\ now = 0
  /\ store = << >>
  /\ env = [geminiKey |-> TRUE, flashKey |-> TRUE]
  /\ chat = [r \in ChatReqs |-> ChatIdle]
  /\ overlapped = {}
  /\ sweep = SweepIdle
  /\ api = ApiIdle
  /\ an = [a \in AnalyzeReqs |-> AnalyzeIdle]
  /\ uuids = {}
  /\ ApartIdle

NextFiles ==
  \/ \E n \in 1..(MaxFiles + 1) : AnalyzeReceive("a1", Photos(n))
  \/ \E failed \in SUBSET (1..(MaxFiles + 1)) : AnalyzeProcessImages("a1", failed)
  \/ \E text \in Narratives : AnalyzeNarrative("a1", text)
  \/ AnalyzeCallFail("a1")
  \/ \E text \in AuthReplies : AnalyzeAuthenticity("a1", text)
  \/ \E text \in PriceReplies : AnalyzePrice("a1", text)
  \/ \E uploaded \in 0..(2 * (MaxFiles + 1)) : AnalyzeGcs("a1", uploaded, "s1")
  \/ AnalyzeSaveSession("a1")
  \/ AnalyzeLog("a1")

SpecFiles == InitFiles /\ [][NextFiles]_vars

\* the server as the client specifications leave it
ServerIdle ==
  /\ now = 0
  /\ store = << >>
  /\ env = [geminiKey |-> TRUE, flashKey |-> TRUE]
  /\ chat = [r \in ChatReqs |-> ChatIdle]
  /\ overlapped = {}
  /\ sweep = SweepIdle
  /\ api = ApiIdle
  /\ an = [a \in AnalyzeReqs |-> AnalyzeIdle]
  /\ uuids = {}

\* Chat box: the user types and sends, the health checks and the chat
\* requests answer or fail.
InitBox == ServerIdle /\ ApartIdle

\* the requests of the component settle
BoxSettle ==
  \/ \E c \in 1..MaxSends : HealthOk(c)
  \/ \E c \in 1..MaxSends : HealthFail(c)
  \/ \E c \in 1..MaxSends, text \in BoxReplies : ChatOk(c, text)
  \/ \E c \in 1..MaxSends, refused \in BOOLEAN : ChatFail(c, refused)

NextBox ==
  \/ \E text \in Inputs : SetInput(text)
  \/ HandleSend
  \/ BoxSettle

\* every request sent settles: GET /api/health has a timeout, and the chat
\* request ends with an answer or with an error
SpecBox ==
  /\ InitBox
  /\ [][NextBox]_vars
  /\ WF_vars(BoxSettle)

\* Upload page: the user picks, drops and removes files and clicks submit;
\* the health checks and the analyze requests answer or fail.
InitPage == ServerIdle /\ ApartIdle

NextPage ==
  \/ \E selectedFiles \in FileLists : HandleFileSelect(selectedFiles)
  \/ HandleDragOver
  \/ HandleDragLeave
  \/ \E selectedFiles \in FileLists : HandleDrop(selectedFiles)
  \/ \E i \in 1..MaxImages : RemoveFile(i)
  \/ HandleSubmit
  \/ \E c \in 1..MaxSubmits : SubmitHealthFail(c)
  \/ \E c \in 1..MaxSubmits : SubmitHealthOk(c)
  \/ \E c \in 1..MaxSubmits : SubmitAnalyzeOk(c)
  \/ \E c \in 1..MaxSubmits :
       SubmitAnalyzeFail(c, "Analysis failed. Try again.")
  \/ \E c \in 1..MaxSubmits : SubmitComplete(c)

SpecPage == InitPage /\ [][NextPage]_vars

\* Loader: a progressive loader is mounted with the steps of a caller, its
\* active prop changes, its timers fire, it is unmounted.
InitLoader == ServerIdle /\ ApartIdle

NextLoader ==
  \/ \E steps \in {ChatSteps, UploadSteps}, active \in BOOLEAN :
       LoaderMount(steps, active)
  \/ \E active \in BOOLEAN : LoaderSetActive(active)
  \/ \E idx \in 1..Len(UploadSteps) : LoaderStepTimer(idx)
  \/ LoaderSettleTimer
  \/ LoaderUnmount

SpecLoader == InitLoader /\ [][NextLoader]_vars

\* Thumbnail URLs: createThumbnailUrl on either platform, with and without
\* a bucket name, on the paths and URLs, and once more on its result.
InitThumbnail ==
  /\ now = 0
  /\ store = << >>
  /\ env = [geminiKey |-> TRUE, flashKey |-> TRUE]
  /\ chat = [r \in ChatReqs |-> ChatIdle]
  /\ overlapped = {}
  /\ sweep = SweepIdle
  /\ api = ApiIdle
  /\ an = [a \in AnalyzeReqs |-> AnalyzeIdle]
  /\ uuids = {}
  /\ ApartIdle

NextThumbnail ==
  \/ \E platform \in {"linux", "win32"}, bucket \in {"", "clot-bucket"},
        protocol \in {"http", "https"}, filePath \in FilePaths :
       ThumbCall(platform, bucket, protocol, "localhost:4000", filePath)
  \/ ThumbCallAgain

SpecThumbnail == InitThumbnail /\ [][NextThumbnail]_vars

\* a session as saveSession stored it for a one-image upload
SavedData ==
  [imagePaths |-> ImagePaths(1, 0),
   analysis |-> [authenticity |-> AuthenticityResult(ParseModelJson(AuthReply).parsed),
                 priceEstimate |-> PriceEstimate(ParseModelJson(PriceReply).parsed),
                 narrative |-> "n1",
                 rarity |-> Rarity("n1"),
                 resalePlatforms |-> ResalePlatforms("n1"),
                 era |-> Era("n1"),
                 thumbnails |-> AnalysisThumbnails(1, 0)],
   conversationHistory |-> << >>]

\* Store: the chat requests, a caller of deleteSession and the clock over a
\* store that holds any of the sessions, saved at some time from
\* 0 up to the time the run starts at.
InitStore ==
  /\ now \in 0..1
  /\ \E S \in SUBSET SessionIds :
       \E t \in [S -> 0..now] :
         store = [id \in S |-> [data |-> SavedData, expiresAt |-> NewExpiresAt(t[id])]]
  /\ env = [geminiKey |-> TRUE, flashKey |-> TRUE]
  /\ chat = [r \in ChatReqs |-> ChatIdle]
  /\ overlapped = {}
  /\ sweep = SweepIdle
  /\ api = ApiIdle
  /\ an = [a \in AnalyzeReqs |-> AnalyzeIdle]
  /\ uuids = {}
  /\ ApartIdle

NextStore ==
  \/ ChatNext
  \/ \E id \in SessionIds : DeleteSessionCall(id)
  \/ DeleteSessionReturn
  \/ Tick

SpecStore == InitStore /\ [][NextStore]_vars

\* ------------------------------------------------------------ properties
\* r took the step that resumes it at pc value p
Leaves(r, p) == chat[r].pc = p /\ chat'[r].pc # p

\* C1: getSession returns null when it reads no record or a record with
\* now > expiresAt, and in the expired case the record is deleted before it
\* returns; otherwise it returns the stored data and writes nothing.
C1_GetSessionContract ==
  [][\A r \in ChatReqs :
       LET sid == chat[r].sessionId
           d == DocGet(store, sid)
       IN /\ Leaves(r, "getSession") =>
               /\ ~d.exists => (chat'[r].result = "null" /\ store' = store)
               /\ (d.exists /\ now > d.expiresAt) =>
                    (chat'[r].pc = "expire" /\ chat'[r].result = "")
               /\ (d.exists /\ now <= d.expiresAt) =>
                    /\ chat'[r].result = "session"
                    /\ chat'[r].pc = "askGemini" => chat'[r].session = d.data
                    /\ store' = store
          /\ Leaves(r, "expire") =>
               (chat'[r].result = "null" /\ sid \notin DOMAIN store')]_vars

C1_Witness ==
  \E r, q \in ChatReqs :
    /\ chat[r].result = "null" /\ chat[r].dels = 1
    /\ chat[q].result = "session" /\ chat[q].pc = "askGemini"

\* a following getSession(id) at time t would return the session
Live(st, id, t) == id \in DOMAIN st /\ ~(t > st[id].expiresAt)

\* C2: updateSession on an id with no record, or with an expired record,
\* does not create or revive it: getSession still returns not-found after it.
C2_UpdateOnlyLiveRecord ==
  [][\A r \in ChatReqs :
       (Leaves(r, "updateSession") /\ ~Live(store, chat[r].sessionId, now))
         => ~Live(store', chat[r].sessionId, now')]_vars

\* no updateSession has landed on sid
NoUpdate(sid) == \A q \in ChatReqs : ~(chat[q].sessionId = sid /\ chat[q].sets > 0)

\* C3: after saveSession(id, d) and until an update, getSession(id) returns d
\* while now <= expiresAt and not-found at every later time, however often
\* it is called.
C3_RoundTrip ==
  [][\A r \in ChatReqs, a \in AnalyzeReqs :
       (/\ an[a].sets = 1
        /\ an[a].sessionId = chat[r].sessionId
        /\ NoUpdate(chat[r].sessionId))
       => /\ Leaves(r, "getSession") =>
               IF now <= an[a].expiresAt
                 THEN /\ chat'[r].result = "session"
                      /\ chat'[r].pc = "askGemini" => chat'[r].session = an[a].data
                 ELSE chat'[r].result = "null" \/ chat'[r].pc = "expire"
          /\ Leaves(r, "expire") => chat'[r].result = "null"]_vars

C3_Witness ==
  \E a \in AnalyzeReqs :
    /\ an[a].sets = 1
    /\ NoUpdate(an[a].sessionId)
    /\ \A r \in ChatReqs :
         chat[r].sessionId = an[a].sessionId /\ chat[r].result = "null"
    /\ \E r \in ChatReqs : chat[r].dels = 1

\* C4: when two chat requests on one session both read before either writes,
\* both return 200 and the later write alone decides the stored conversation:
\* it is the snapshot both read followed by the later writer's pair only.
C4_LastWriterWins ==
  [][\A r \in ChatReqs :
       (Leaves(r, "updateSession") /\ r \in overlapped) =>
         /\ chat'[r].status = 200
         /\ \E q \in ChatReqs \ {r} :
              chat[q].sessionId = chat[r].sessionId /\ chat[q].status = 200
         /\ store'[chat[r].sessionId].data.conversationHistory =
              chat[r].doc.data.conversationHistory
                \o << Turn("user", chat[r].message),
                      Turn("assistant", chat[r].response) >>]_vars

C4_Witness ==
  \E r \in overlapped, q \in ChatReqs :
    /\ q # r
    /\ chat[r].status = 200 /\ chat[q].status = 200
    /\ chat[r].sessionId = chat[q].sessionId
    /\ chat[r].response # chat[q].response
    /\ chat[r].sessionId \in DOMAIN store
    /\ Len(store[chat[r].sessionId].data.conversationHistory) = 2

\* the reply holds neither a fenced block nor a { ... } span
NoJsonAnywhere(text) ==
  /\ text # << >>
  /\ Cardinality(Positions(text, "fence")) < 2
  /\ \A i \in Positions(text, "{") : \A j \in Positions(text, "}") : j < i

\* C5: an analyze request with a failed model call, or with an authenticity
\* or price reply without JSON, ends 500 and has written no session.
C5_FailedAnalyzeCreatesNothing ==
  \A a \in AnalyzeReqs :
    /\ NoJsonAnywhere(an[a].textResponse) => an[a].failedAt # ""
    /\ an[a].failedAt # "" =>
         /\ an[a].pc = "done" /\ an[a].status = 500
         /\ an[a].sets = 0
         /\ an[a].sessionId = ""
         /\ \A id \in DOMAIN store : \E b \in AnalyzeReqs \ {a} : an[b].sessionId = id

C5_Witness ==
  \E a \in AnalyzeReqs :
    an[a].failedAt = "estimatePrice" /\ NoJsonAnywhere(an[a].textResponse)

\* the position of an event in a trace, 0 when it is not there
Index(trace, e) ==
  IF \E i \in 1..Len(trace) : trace[i] = e
    THEN Min({i \in 1..Len(trace) : trace[i] = e}) ELSE 0

Before(trace, e, f) == Index(trace, f) # 0 => (Index(trace, e) # 0 /\ Index(trace, e) < Index(trace, f))

\* C6: the authenticity call starts after the narrative call returned, the
\* price call after the authenticity call returned, saveSession after the
\* price call returned.
C6_SequentialCalls ==
  \A a \in AnalyzeReqs :
    /\ Before(an[a].trace, << "analyzeImages", "call" >>, << "analyzeImages", "return" >>)
    /\ Before(an[a].trace, << "analyzeImages", "return" >>, << "computeAuthenticity", "call" >>)
    /\ Before(an[a].trace, << "computeAuthenticity", "return" >>, << "estimatePrice", "call" >>)
    /\ Before(an[a].trace, << "estimatePrice", "return" >>, << "saveSession", "call" >>)
    /\ an[a].sets = 1 => Index(an[a].trace, << "saveSession", "call" >>) # 0

C6_Witness ==
  \E a \in AnalyzeReqs : an[a].status = 200 /\ an[a].sets = 1

\* C7: a chat request whose model call fails answers 500 and has written
\* nothing: no set, no delete, and the failing step leaves the store as it is.
C7_FailedChatPersistsNothing ==
  [][\A r \in ChatReqs :
       (chat[r].pc = "askGemini" /\ chat'[r].failed) =>
         /\ chat'[r].status = 500
         /\ chat'[r].sets = 0 /\ chat'[r].dels = 0
         /\ store' = store]_vars

C7_Witness ==
  \E r \in ChatReqs :
    /\ chat[r].failed /\ chat[r].calls = 1 /\ chat[r].status = 500
    /\ chat[r].sessionId \in DOMAIN store
    /\ store[chat[r].sessionId].data.conversationHistory = << >>

\* C8: 400 exactly for a missing sessionId or message, 404 exactly when
\* getSession returned null; neither makes a model call or an update write.
C8_RejectedChat ==
  \A r \in ChatReqs :
    chat[r].pc = "done" =>
      /\ chat[r].status = 400 <=> (chat[r].sessionId = "" \/ chat[r].message = "")
      /\ chat[r].status = 404 <=> chat[r].result = "null"
      /\ chat[r].status \in {400, 404} => (chat[r].calls = 0 /\ chat[r].sets = 0)

C8_Witness ==
  \E r, q \in ChatReqs :
    /\ chat[r].status = 400 /\ chat[r].sessionId # ""
    /\ chat[q].status = 404 /\ chat[q].dels = 1

\* C9: a successful chat whose session nobody wrote since it was read stores
\* the conversation it read followed by the user turn and the assistant
\* turn, and answers with the stored reply.
C9_AppendsTwoTurns ==
  [][\A r \in ChatReqs :
       LET sid == chat[r].sessionId
       IN (Leaves(r, "updateSession") /\ DocGet(store, sid) = chat[r].doc) =>
            /\ chat'[r].status = 200
            /\ store'[sid].data.conversationHistory =
                 store[sid].data.conversationHistory
                   \o << [role |-> "user", content |-> chat[r].message],
                         [role |-> "assistant", content |-> chat'[r].response] >>
            /\ store'[sid].data.analysis = store[sid].data.analysis
            /\ store'[sid].data.imagePaths = store[sid].data.imagePaths]_vars

C9_Witness ==
  \E r \in ChatReqs :
    /\ chat[r].status = 200
    /\ chat[r].sessionId \in DOMAIN store
    /\ Len(store[chat[r].sessionId].data.conversationHistory) = 4
    /\ store[chat[r].sessionId].data.conversationHistory[4].content = chat[r].response

\* C10: saveSession and updateSession called at time t write expiresAt =
\* t + TTL; getSession returns a record at every time up to its expiresAt;
\* getSession changes no expiresAt.
C10_SlidingExpiration ==
  [][/\ \A a \in AnalyzeReqs :
          /\ (an[a].pc = "gcs" /\ an'[a].pc = "saveSession") =>
               an'[a].expiresAt = now + SESSION_TTL_MS
          /\ (an[a].pc = "saveSession" /\ an'[a].pc # "saveSession") =>
               store'[an[a].sessionId].expiresAt = an[a].expiresAt
     /\ \A r \in ChatReqs :
          LET sid == chat[r].sessionId
          IN /\ (chat[r].pc = "askGemini" /\ chat'[r].pc = "updateSession") =>
                  chat'[r].expiresAt = now + SESSION_TTL_MS
             /\ Leaves(r, "updateSession") =>
                  store'[sid].expiresAt = chat[r].expiresAt
             /\ (Leaves(r, "getSession") /\ sid \in DOMAIN store
                   /\ now <= store[sid].expiresAt) =>
                  chat'[r].result = "session"
             /\ (Leaves(r, "getSession") \/ Leaves(r, "expire")) =>
                  \A id \in DOMAIN store' : store'[id].expiresAt = store[id].expiresAt]_vars

C10_Witness ==
  \E r, q \in ChatReqs :
    /\ chat[r].status = 200
    /\ chat[q].pc = "askGemini" /\ chat[q].sessionId = chat[r].sessionId
    /\ chat[q].doc.expiresAt = now
    /\ Len(chat[q].doc.data.conversationHistory) = 2

\* the ids for which getSession at time t returns a session
Retrievable(st, t) == {id \in DOMAIN st : Live(st, id, t)}

\* C11: a sweep with cutoff t takes every record with expiresAt < t and
\* removes all of them; it removes no record whose expiresAt is at or after
\* t, and getSession finds the same sessions right before and right after it.
C11_SweepRemovesExpiredOnly ==
  [][/\ (sweep.pc = "query" /\ sweep'.pc # "query") =>
          sweep'.batch = {id \in DOMAIN store : store[id].expiresAt < sweep.cutoff}
     /\ (sweep.pc = "commit" /\ sweep'.pc # "commit") =>
          /\ \A id \in sweep.batch : id \notin DOMAIN store'
          /\ \A id \in DOMAIN store :
               id \notin DOMAIN store' => store[id].expiresAt < sweep.cutoff
          /\ Retrievable(store', now') = Retrievable(store, now)]_vars

\* C12: deleteSession(id) returns normally whether or not the record is
\* there; on an absent id it leaves the store as it is; after it the record
\* is gone, getSession(id) finds nothing and the other records are as before.
C12_DeleteIdempotent ==
  [][(api.pc = "delete" /\ api'.pc # "delete") =>
       /\ api'.returned = api.returned + 1
       /\ api.id \notin DOMAIN store => store' = store
       /\ api.id \notin DOMAIN store'
       /\ GetSessionBranch(DocGet(store', api.id), now') = "absent"
       /\ \A x \in SessionIds \ {api.id} : DocGet(store', x) = DocGet(store, x)]_vars

\* deleteSession returned twice for the same id, the second time on an
\* absent record, next to a record that is still stored
C12_Witness ==
  /\ api.pc = "idle" /\ api.returned = 2
  /\ \A r \in ChatReqs : chat[r].pc = "idle"
  /\ DOMAIN store = SessionIds \ {api.id}

\* C13: a step of a chat request (getSession with its lazy expiry, the
\* update write) or of deleteSession on one id leaves the record of every
\* other id, data and expiresAt, as it is.
C13_OtherSessionsUntouched ==
  [][\A b \in SessionIds :
       /\ \A r \in ChatReqs :
            (chat'[r] # chat[r] /\ chat[r].sessionId # b /\ chat'[r].sessionId # b)
              => DocGet(store', b) = DocGet(store, b)
       /\ (api' # api /\ api.id # b /\ api'.id # b)
            => DocGet(store', b) = DocGet(store, b)]_vars

\* a chat turn stored on one session, a lazy expiry and a delete happened,
\* and another session is stored as it was saved
C13_Witness ==
  \E r, q \in ChatReqs, b \in SessionIds :
    /\ chat[r].status = 200 /\ chat[r].sessionId # b
    /\ chat[q].dels = 1 /\ chat[q].sessionId # b
    /\ api.returned > 0 /\ api.id # b
    /\ b \in DOMAIN store /\ store[b].data = SavedData

\* C14: on a server with the vision key, an upload with no files, with a file
\* that is not JPEG/PNG, with a file above the size limit or with more than
\* three files is answered 400, without a model call and without a session.
C14_InvalidUploadIs400 ==
  \A a \in AnalyzeReqs :
    (an[a].pc = "done" /\ env.geminiKey /\ (an[a].files = 0 \/ an[a].rejected # "")) =>
      /\ an[a].status = 400
      /\ an[a].trace = << >>
      /\ an[a].sets = 0 /\ an[a].sessionId = ""

ModelStages == {"analyzeImages", "computeAuthenticity", "estimatePrice"}

\* C15: an analyze request makes each of the three model calls at most once,
\* and each exactly once when it answers 200; a chat request makes at most
\* one model call; a request whose call failed has ended and calls no more.
C15_NoRetry ==
  /\ \A a \in AnalyzeReqs :
       /\ \A stage \in ModelStages : CallsOf(an[a].trace, stage) <= 1
       /\ an[a].status = 200 =>
            \A stage \in ModelStages : CallsOf(an[a].trace, stage) = 1
       /\ (\E i \in 1..Len(an[a].trace) : an[a].trace[i][2] = "throw") =>
            (an[a].pc = "done" /\ an[a].trace[Len(an[a].trace)][2] = "throw")
  /\ \A r \in ChatReqs :
       /\ chat[r].calls <= 1
       /\ chat[r].failed => chat[r].pc = "done"

C15_Witness ==
  /\ \E a \in AnalyzeReqs :
       an[a].status = 200 /\ \A stage \in ModelStages : CallsOf(an[a].trace, stage) = 1
  /\ \E r \in ChatReqs : chat[r].failed /\ chat[r].calls = 1 /\ chat[r].status = 500

\* the awaited call of a stage of request a returns in this step with text
Returns(a, stage, text) ==
  /\ an[a].pc = stage
  /\ an'[a].pc # stage
  /\ an[a].textResponse # text
  /\ an'[a].textResponse = text

\* neither a fenced block nor a { ... } span
NoJsonSpan(text) ==
  /\ Cardinality(Positions(text, "fence")) < 2
  /\ \A i \in Positions(text, "{") : \A j \in Positions(text, "}") : j < i

\* C16: {"score":80,} is not valid JSON as it stands, yet the authenticity
\* extraction succeeds on it with score 80; so does the price extraction on a
\* triple with a trailing comma; a reply with neither a fenced block nor a
\* { ... } span makes the call fail, and the request ends 500.
C16_TrailingCommaRecovered ==
  [][\A a \in AnalyzeReqs :
       /\ Returns(a, "computeAuthenticity", TrailingCommaReply) =>
            /\ ~JsonValid(TrailingCommaReply)
            /\ an'[a].failedAt = "" /\ an'[a].pc = "estimatePrice"
            /\ an'[a].authenticity.score = 800
       /\ Returns(a, "estimatePrice",
                  JsonObjectTrailingComma(<< Num("current_low_inr", 10000),
                                             Num("current_median_inr", 20000),
                                             Num("current_high_inr", 30000) >>)) =>
            /\ an'[a].failedAt = ""
            /\ an'[a].priceEstimate.current_market_price.inr =
                 [low |-> 10000, median |-> 20000, high |-> 30000]
       /\ \A stage \in {"computeAuthenticity", "estimatePrice"} :
            (/\ an[a].pc = stage
             /\ an'[a].pc # stage
             /\ NoJsonSpan(an'[a].textResponse)) =>
              (an'[a].failedAt = stage /\ an'[a].status = 500 /\ an'[a].pc = "done")]_vars

\* the request went through on {"score":80,}: score 80, the default verdict,
\* no confidence
C16_Witness ==
  \E a \in AnalyzeReqs :
    /\ an[a].status = 200
    /\ an[a].authenticity = [score |-> 800, verdict |-> "QUESTIONABLE", confidence |-> NaN]

\* the write of saveSession of request a lands in this step
Saves(a) == an[a].pc = "saveSession" /\ an'[a].pc # "saveSession"

\* C17: whatever verdict string the authenticity JSON carries, one of the
\* four tokens or any other, the AuthenticityResult and the stored analysis
\* carry that string.
C17_VerdictPassedThrough ==
  [][\A a \in AnalyzeReqs :
       /\ \A score \in Scores, verdict \in Verdicts :
            Returns(a, "computeAuthenticity", VerdictReply(score, verdict)) =>
              an'[a].authenticity.verdict = verdict
       /\ Saves(a) =>
            store'[an[a].sessionId].data.analysis.authenticity.verdict =
              an[a].authenticity.verdict]_vars

\* C17 as amended: a non-empty verdict string is carried as it is to the
\* AuthenticityResult and the stored analysis; an empty or missing verdict
\* becomes QUESTIONABLE.
C17_NonEmptyVerdictPassedThrough ==
  [][\A a \in AnalyzeReqs :
       /\ \A score \in Scores, verdict \in Verdicts :
            Returns(a, "computeAuthenticity", VerdictReply(score, verdict)) =>
              an'[a].authenticity.verdict =
                IF verdict = "" THEN "QUESTIONABLE" ELSE verdict
       /\ Returns(a, "computeAuthenticity",
                  JsonObject(<< Num("score", 424), Num("confidence", 876) >>)) =>
            an'[a].authenticity.verdict = "QUESTIONABLE"
       /\ Saves(a) =>
            store'[an[a].sessionId].data.analysis.authenticity.verdict =
              an[a].authenticity.verdict]_vars

\* a verdict outside the four tokens is in the stored analysis
C17_Witness ==
  \E a \in AnalyzeReqs :
    /\ an[a].status = 200
    /\ an[a].sessionId \in DOMAIN store
    /\ store[an[a].sessionId].data.analysis.authenticity.verdict = "PROBABLY FAKE"

\* n (in tenths) is the integer nearest to y / scale, halves upwards
IsNearestInteger(n, y, scale) ==
  /\ n % 10 = 0
  /\ 2 * (n \div 10) * scale - scale <= 2 * y
  /\ 2 * y < 2 * (n \div 10) * scale + scale

\* C18: for a price JSON with the three current_*_inr values, each inr field
\* of the result is the nearest integer to the value and each usd field the
\* nearest integer to the value times 0.012; (1000, 2000, 3000) gives
\* inr {1000, 2000, 3000} and usd {12, 24, 36}.
C18_PriceRounding ==
  [][\A a \in AnalyzeReqs :
       /\ \A low, median, high \in PriceValues :
            Returns(a, "estimatePrice", TripleReply(low, median, high)) =>
              LET price == an'[a].priceEstimate.current_market_price
              IN /\ IsNearestInteger(price.inr.low, low, 10)
                 /\ IsNearestInteger(price.inr.median, median, 10)
                 /\ IsNearestInteger(price.inr.high, high, 10)
                 /\ IsNearestInteger(price.usd.low, 12 * low, 10000)
                 /\ IsNearestInteger(price.usd.median, 12 * median, 10000)
                 /\ IsNearestInteger(price.usd.high, 12 * high, 10000)
       /\ Returns(a, "estimatePrice", TripleReply(10000, 20000, 30000)) =>
            an'[a].priceEstimate.current_market_price =
              [inr |-> [low |-> 10000, median |-> 20000, high |-> 30000],
               usd |-> [low |-> 120, median |-> 240, high |-> 360]]]_vars

\* (41.6, 125, 1000.5) came out as inr (42, 125, 1001) and usd (0, 2, 12)
C18_Witness ==
  \E a \in AnalyzeReqs :
    /\ an[a].pc \in {"gcs", "saveSession", "logAnalysis", "done"}
    /\ an[a].failedAt = ""
    /\ an[a].priceEstimate.current_market_price =
         [inr |-> [low |-> 420, median |-> 1250, high |-> 10010],
          usd |-> [low |-> 0, median |-> 20, high |-> 120]]

\* a number the model returned came out as an integer
IsInteger(x) == x \in {NaN, Undefined} \/ x % 10 = 0

\* C19: every number in the results of the two JSON extractions is an
\* integer: authenticity score and confidence, retail price inr and usd, the
\* current market price fields in inr and usd, and the price confidence.
C19_AllNumbersRounded ==
  \A a \in AnalyzeReqs :
    LET auth == an[a].authenticity
        price == an[a].priceEstimate
    IN /\ IsInteger(auth.score) /\ IsInteger(auth.confidence)
       /\ price.retail_price.defined =>
            (IsInteger(price.retail_price.inr) /\ IsInteger(price.retail_price.usd))
       /\ \A cur \in {"inr", "usd"}, f \in {"low", "median", "high"} :
            IsInteger(price.current_market_price[cur][f])
       /\ IsInteger(price.confidence)

Ordered(low, median, high) == low <= median /\ median <= high

\* C20: a price triple that is not in the order low <= median <= high gives
\* a result, and a stored session, whose inr triple is not in that order.
C20_DisorderPassedThrough ==
  [][\A a \in AnalyzeReqs :
       /\ \A low, median, high \in PriceValues :
            (Returns(a, "estimatePrice", TripleReply(low, median, high))
               /\ ~Ordered(low, median, high)) =>
              LET inr == an'[a].priceEstimate.current_market_price.inr
              IN ~Ordered(inr.low, inr.median, inr.high)
       /\ Saves(a) =>
            store'[an[a].sessionId].data.analysis.priceEstimate = an[a].priceEstimate]_vars

\* C20 as amended: each inr field of the result is the model's value for that
\* very field, rounded; so a triple that is out of order after rounding, as
\* is every triple out of order by 1 or more, gives a result, and a stored
\* session, that is out of order.
C20_RoundedDisorderPassedThrough ==
  [][\A a \in AnalyzeReqs :
       /\ \A low, median, high \in PriceValues :
            Returns(a, "estimatePrice", TripleReply(low, median, high)) =>
              LET inr == an'[a].priceEstimate.current_market_price.inr
              IN /\ IsNearestInteger(inr.low, low, 10)
                 /\ IsNearestInteger(inr.median, median, 10)
                 /\ IsNearestInteger(inr.high, high, 10)
                 /\ (low >= median + 10 \/ median >= high + 10) =>
                      ~Ordered(inr.low, inr.median, inr.high)
       /\ Saves(a) =>
            store'[an[a].sessionId].data.analysis.priceEstimate = an[a].priceEstimate]_vars

\* (3000, 1000, 2000) is stored as it came
C20_Witness ==
  \E a \in AnalyzeReqs :
    /\ an[a].status = 200
    /\ an[a].sessionId \in DOMAIN store
    /\ store[an[a].sessionId].data.analysis.priceEstimate.current_market_price.inr =
         [low |-> 30000, median |-> 10000, high |-> 20000]

\* the analysis of request a has been compiled
Compiled(a) ==
  /\ an[a].pc \in {"gcs", "saveSession", "logAnalysis", "done"}
  /\ an[a].failedAt = ""
  /\ an[a].pc = "done" => an[a].status = 200

\* the session request a saved is in the store
Stored(a) == an[a].sets = 1 /\ an[a].sessionId \in DOMAIN store

\* the rarity word w stands in s as a word of its own, in any letter case
HasRarityToken(s, w) == \E i \in 1..Len(s) : w \in RarityMatchAt(s, i)

\* C21: a narrative with the word rare, in any letter case, as a word of its
\* own gives rarity rare; a narrative with none of the six rarity words gives
\* common; the rarity is one of the six words, in lower case.
C21_RareGivesRare ==
  \A a \in AnalyzeReqs :
    Compiled(a) =>
      LET s == an[a].narrative
      IN /\ HasRarityToken(s, "rare") => an[a].rarity = "rare"
         /\ (\A w \in RarityWords : ~HasRarityToken(s, w)) => an[a].rarity = "common"
         /\ an[a].rarity \in RarityWords
         /\ Stored(a) => store[an[a].sessionId].data.analysis.rarity = an[a].rarity

\* C21 as amended: the first of the six rarity words in the narrative, in any
\* letter case and as a word of its own, is the rarity, in lower case: rare
\* when that word is rare; common when there is none.
C21_FirstRarityWordDecides ==
  \A a \in AnalyzeReqs :
    Compiled(a) =>
      LET s == an[a].narrative
      IN /\ \A i \in 1..Len(s) :
              (/\ RarityMatchAt(s, i) # {}
               /\ \A j \in 1..(i - 1) : RarityMatchAt(s, j) = {})
                => an[a].rarity \in RarityMatchAt(s, i)
         /\ (\A w \in RarityWords : ~HasRarityToken(s, w)) => an[a].rarity = "common"
         /\ an[a].rarity \in RarityWords
         /\ s \in {"Rarity: Rare", "RARITY: RARE", "ultra-rare"} => an[a].rarity = "rare"
         /\ s \in {"rarely seen", "rare_item"} => an[a].rarity = "common"
         /\ Stored(a) => store[an[a].sessionId].data.analysis.rarity = an[a].rarity

\* RARITY: RARE was stored as rare
C21_Witness ==
  \E a \in AnalyzeReqs :
    /\ an[a].status = 200 /\ Stored(a)
    /\ an[a].narrative = "RARITY: RARE"
    /\ store[an[a].sessionId].data.analysis.rarity = "rare"

\* the first names of a list, at most MaxPlatforms
FirstNames(names) ==
  SubSeq(names, 1, IF Len(names) < MaxPlatforms THEN Len(names) ELSE MaxPlatforms)

\* C22: for a candidate text in the resale platforms field: when it holds
\* names of the known list (letter case aside), the result is those names,
\* each once, in the order of the list; otherwise the trimmed non-empty
\* fragments under 30 characters between commas, semicolons, and, or, at most
\* 5 of them; when there is none either, the candidate text itself.
C22_PlatformExtraction ==
  \A a \in AnalyzeReqs :
    Compiled(a) =>
      \A text \in PlatformTexts :
        an[a].narrative = ObsHeading \o text =>
          LET names == an[a].resalePlatforms.names
              known == {i \in 1..Len(KnownPlatforms) :
                          Includes(ToLowerCase(text), ToLowerCase(KnownPlatforms[i]))}
              short == ShortNames(SplitParts(text))
          IN /\ known # {} =>
                  /\ Len(names) = Cardinality(known)
                  /\ \A i \in known : \E k \in 1..Len(names) : names[k] = KnownPlatforms[i]
                  /\ \A k, m \in 1..Len(names) :
                       k < m => \E i, j \in known :
                                  i < j /\ names[k] = KnownPlatforms[i]
                                        /\ names[m] = KnownPlatforms[j]
             /\ text = "You can sell this on Grailed, Depop or eBay" =>
                  names = << "Grailed", "Depop", "eBay" >>
             /\ (known = {} /\ Len(short) > 0) => names = FirstNames(short)
             /\ text = "thrift shops, flea markets and online; a, b or c" =>
                  names = << "thrift shops", "flea markets", "online", "a", "b" >>
             /\ (known = {} /\ Len(short) = 0) => names = << text >>

\* C23: without an ERA & DATING heading the era classification is Modern
\* and there is no decade; with the section, a decade is set only when the
\* text of the section holds a decade token, and it is that token; the
\* classification is never the empty string.
C23_EraDefaults ==
  \A a \in AnalyzeReqs :
    Compiled(a) =>
      LET s == an[a].narrative
          era == an[a].era
          section == Section(s, EraHeading)
      IN /\ ~section.match =>
              (era.classification = "Modern" /\ ~era.decade.defined)
         /\ s \in {"A jacket from the 1990s", "ERA & DATING: Vintage, 1990s"} =>
              (era.classification = "Modern" /\ ~era.decade.defined)
         /\ era.decade.defined =>
              /\ section.match
              /\ \E i \in 1..Len(section.text) :
                   /\ DecadeMatchAt(section.text, i)
                   /\ era.decade.value = Slice(section.text, i, i + 4)
         /\ Includes(s, "Contemporary, after 1995") => ~era.decade.defined
         /\ era.classification # ""
         /\ Stored(a) => store[an[a].sessionId].data.analysis.era = era

\* a section with text on the heading line and a decade below was stored
C23_Witness ==
  \E a \in AnalyzeReqs :
    /\ an[a].status = 200 /\ Stored(a)
    /\ store[an[a].sessionId].data.analysis.era.classification = "Vintage"
    /\ store[an[a].sessionId].data.analysis.era.decade = [defined |-> TRUE, value |-> "1990S"]

\* C24: without a bucket name, createThumbnailUrl gives
\* <protocol>://<host>/uploads/thumb_file.jpg for the unix-style path and for
\* the windows-style path with backslashes; it returns an http(s) URL as it
\* is; applied to its own result it returns that result.
C24_ThumbnailUrl ==
  (thumb.pc # "idle" /\ thumb.bucket = "") =>
    /\ thumb.filePath \in {UnixPath, WindowsPath} =>
         thumb.url = thumb.protocol \o "://" \o thumb.host \o "/uploads/thumb_file.jpg"
    /\ thumb.filePath \in {"http://cdn.example/t/thumb_file.jpg",
                           "HTTPS://cdn.example/t/thumb_file.jpg"} =>
         thumb.url = thumb.filePath
    /\ thumb.pc = "returnedAgain" => thumb.again = thumb.url

\* an analyze request saved the session id
WasSaved(id) == \E a \in AnalyzeReqs : an[a].sets = 1 /\ an[a].sessionId = id

\* C25: once the record of a saved session is gone (lazy expiry deleted it
\* and getSession returned not-found, or the sweep deleted it), no step other
\* than a saveSession of a new analyze request makes getSession return the
\* session again; in particular not the update of a chat request that read
\* the session before it expired.
C25_ExpiryPermanent ==
  [][\A id \in SessionIds :
       (/\ WasSaved(id)
        /\ id \notin DOMAIN store
        /\ \A a \in AnalyzeReqs : ~(Saves(a) /\ an[a].sessionId = id))
         => ~Live(store', id, now')]_vars

\* C26: when the response of an analyze request has been sent, with 200 or
\* with an error, none of the temporary files the request wrote and none of
\* the thumbnails made from them is left in the temp directory.
C26_TempFilesRemoved ==
  \A a \in AnalyzeReqs : an[a].pc = "done" => an[a].tmpFiles = {}

\* the object the reference names exists: a file of the temp directory, an
\* object the request uploaded, or, for a URL made by createThumbnailUrl, a
\* file of the served uploads directory (or an object of that base name in
\* the bucket), which the handler never writes
Resolves(x, ref) ==
  CASE ref.kind \in {"tmp", "thumb"} -> ref \in x.tmpFiles
    [] ref.kind \in {"gcs", "gcsThumb"} -> ref \in x.objects
    [] OTHER -> FALSE

\* C27: when an analyze request of n images has answered 200, the imagePaths
\* of the session it saved and the thumbnails of the analysis it returned
\* hold n references each, and every reference names an object that exists.
C27_ImageRefsResolvable ==
  \A a \in AnalyzeReqs :
    (an[a].pc = "done" /\ an[a].status = 200) =>
      LET imagePaths == an[a].data.imagePaths
          thumbnails == an[a].data.analysis.thumbnails
      IN /\ Len(imagePaths) = an[a].files
         /\ Len(thumbnails) = an[a].files
         /\ \A i \in 1..Len(imagePaths) : Resolves(an[a], imagePaths[i])
         /\ \A i \in 1..Len(thumbnails) : Resolves(an[a], thumbnails[i])

\* the calls of handleSend that are being processed
Processing ==
  {c \in DOMAIN box.calls : box.calls[c] # "ended"}

\* user, assistant, user, assistant, ...
Alternates(messages) ==
  \A i \in 1..Len(messages) :
    messages[i].role = (IF i % 2 = 1 THEN "user" ELSE "assistant")

\* at most one send is processed, the messages alternate, and each send
\* that ended has its one assistant message right after its user message
BoxShape ==
  /\ Cardinality(Processing) <= 1
  /\ Alternates(box.messages)
  /\ Len(box.messages) = 2 * Len(box.calls) - Cardinality(Processing)
  /\ box.isLoading <=> Processing # {}

\* a call of handleSend made while isLoading or with a blank input
IgnoredSend ==
  /\ box'.sends = box.sends + 1
  /\ box.isLoading \/ Trim(box.input) = ""

SameBox ==
  /\ box'.messages = box.messages
  /\ box'.input = box.input
  /\ box'.isLoading = box.isLoading
  /\ box'.calls = box.calls

\* the send c, once accepted, ends with isLoading false and an assistant
\* message after its user message
SendEnds(c) ==
  (c \in Processing) ~>
    (/\ c \in DOMAIN box.calls
     /\ box.calls[c] = "ended"
     /\ ~box.isLoading
     /\ Len(box.messages) = 2 * c
     /\ box.messages[2 * c].role = "assistant")

\* C28: in a chat component at most one send is processed at a time, a
\* send made while isLoading or with a blank input changes nothing, the
\* messages alternate user, assistant from a user message on, and every
\* accepted send ends with isLoading false and one assistant message added
\* after its user message.
C28_OneSendAtATime ==
  /\ []BoxShape
  /\ [][IgnoredSend => SameBox]_vars
  /\ \A c \in 1..MaxSends : SendEnds(c)

\* two sends were answered, the first by a failed health check, and a send
\* was ignored
C28_Witness ==
  /\ Len(box.messages) = 4
  /\ box.messages[2].content = ServerDownMsg
  /\ box.messages[4].content \in BoxReplies
  /\ box.sends = 3
  /\ ~box.isLoading

\* the calls of handleSubmit whose POST /api/analyze is in flight
InFlight ==
  {c \in DOMAIN page.submits : page.submits[c].pc = "analyze"}

\* C29: on the upload page the files number at most 3, the previews are as
\* many as the files with preview i made from file i, and at most one POST
\* /api/analyze is in flight: a click made while an earlier submit is in its
\* health check or its analysis starts no second request.
C29_UploadPage ==
  /\ Len(page.files) <= MaxImages
  /\ Len(page.previews) = Len(page.files)
  /\ \A i \in 1..Len(page.files) :
       i <= Len(page.previews) /\ page.previews[i] = CreateObjectURL(page.files[i])
  /\ Cardinality(InFlight) <= 1
\* done*, then at most one active, then pending*, with one active step as
\* long as a step is not done
StatusShape(statuses) ==
  \E d \in 0..Len(statuses) :
    /\ \A i \in 1..d : statuses[i] = "done"
    /\ d < Len(statuses) => statuses[d + 1] = "active"
    /\ \A i \in (d + 2)..Len(statuses) : statuses[i] = "pending"

\* C30: while the loader is active its statuses are done*, one active until
\* the last step is done, pending*, the steps completing in index order (the
\* timers left are those of the steps not done yet); when active is false
\* every step is done and no step timer is left to change a status; and
\* onComplete is called at most once per activation.
C30_LoaderSteps ==
  loader.pc = "mounted" =>
    /\ loader.active =>
         /\ StatusShape(loader.statuses)
         /\ loader.timers =
              {i \in 1..Len(loader.statuses) : loader.statuses[i] # "done"}
    /\ ~loader.active =>
         /\ \A i \in 1..Len(loader.statuses) : loader.statuses[i] = "done"
         /\ loader.timers = {}
    /\ loader.activations > 0 => loader.completes <= 1
====
